---- MODULE Spec2Model ----
(***************************************************************************)
(* A model of the duckdb_markdown decomposition and rendering core:        *)
(*   - markdown_utils::GenerateSectionId and ::ExtractSections             *)
(*   - markdown_utils::ParseBlocks (block order, list and table encoders)  *)
(*   - DuckBlockFunctions::ParseJsonListItems / ParseJsonTable and the     *)
(*     list and table branches of RenderBlockElementToMarkdown             *)
(*   - DuckBlockFunctions::RenderInlineElementToMarkdown,                  *)
(*     ::RenderBlockElementToMarkdown, ::RenderDuckBlockToMarkdown and     *)
(*     ::RenderDuckBlocksToMarkdown                                        *)
(*   - the duck_blocks_to_sections scalar function                         *)
(*   - DuckBlockFunctions::ExtractPandocText                               *)
(*   - markdown_utils::GenerateBreadcrumb                                  *)
(*   - MarkdownCopyFunction: Sink, Combine, Finalize and the row renderers *)
(*   - MarkdownReader::MarkdownReadSectionsFunction                        *)
(* Strings are sequences of one-character strings.  The cmark node tree is *)
(* a sequence of top-level nodes; a block quote holds a sequence of child  *)
(* nodes.  A node is addressed by its path: <<k>> or <<k, c>>; <<>> is the *)
(* null node pointer.                                                      *)
(***************************************************************************)
EXTENDS Integers, Sequences, FiniteSets, TLC

VARIABLES
    \* ---- ExtractSections ----
    doc,                \* the parsed document: top-level nodes
    min_level, max_level, include_content, content_mode, max_content_length,
    heading_nodes,      \* paths of all heading nodes, in iterator order
    heading_levels,     \* their levels
    i,                  \* index of the second pass (0-based, as in the code)
    sections,           \* std::vector<MarkdownSection> sections
    id_counts,          \* std::unordered_map<std::string, int32_t>
    pc,
    \* ---- ParseBlocks ----
    b_frontmatter,      \* raw frontmatter text the regex captures ("" if none)
    b_nodes,            \* top-level children of the parsed body
    b_child,            \* number of children already visited
    block_order,        \* int32_t block_order
    blocks,             \* std::vector<MarkdownBlock> blocks
    b_pc,
    \* ---- list pipeline: encoder, ParseJsonListItems, renderer ----
    l_list,             \* the list node: item texts, list type, start number
    l_block,            \* the list record ParseBlocks builds
    l_parsed, l_out, l_pc,
    \* ---- table pipeline: encoder, ParseJsonTable, renderer ----
    t_rows,             \* the table node: rows of cell texts, the header row first
    t_content,          \* the table record's content
    t_headers, t_body, t_out, t_pc,
    \* ---- RenderDuckBlocksToMarkdown ----
    r_blocks,           \* the list of duck_block records (blocks_value)
    r_i,                \* number of list children already visited
    result,             \* string result
    last_was_inline,    \* bool last_was_inline
    r_parts,            \* what each visited record appended to result
    r_pc,
    \* ---- duck_blocks_to_sections ----
    d_blocks,           \* the list of duck_block records (blocks_value)
    d_i,                \* number of list children already visited
    d_sections,         \* vector<Value> sections
    current_title, current_level, current_section_id, current_content,
    section_path_parts,
    d_pc,
    \* ---- ExtractPandocText ----
    p_inlines,          \* the inline nodes that content serialises
    p_content,          \* const string &content
    p_out,              \* the returned string
    p_pc,
    \* ---- GenerateSectionId called on its own result ----
    g_text, g_counts_in, g_counts, g_id, g_prev, g_n,
    \* ---- GenerateBreadcrumb ----
    bc_section_id, bc_separator, bc_sections, bc_current, bc_visited, bc_titles, bc_result, bc_pc,
    \* ---- COPY ... TO (FORMAT MARKDOWN): Sink, Combine, Finalize ----
    c_mode, c_header, c_frontmatter, c_input, c_sunk, c_buffer, c_pc, write_lock, header_written, frontmatter_written, c_file, c_closed,
    \* ---- MarkdownReadSectionsFunction on one local state ----
    rd_files, file_index, section_index, current_sections, finished, output_idx, output, rd_out, rd_pc

secVars == <<doc, min_level, max_level, include_content, content_mode,
             max_content_length, heading_nodes, heading_levels, i, sections,
             id_counts, pc>>
blkVars == <<b_frontmatter, b_nodes, b_child, block_order, blocks, b_pc>>
listVars == <<l_list, l_block, l_parsed, l_out, l_pc>>
tblVars == <<t_rows, t_content, t_headers, t_body, t_out, t_pc>>
rndVars == <<r_blocks, r_i, result, last_was_inline, r_parts, r_pc>>
dbsVars == <<d_blocks, d_i, d_sections, current_title, current_level,
             current_section_id, current_content, section_path_parts, d_pc>>
pdcVars == <<p_inlines, p_content, p_out, p_pc>>
genVars == <<g_text, g_counts_in, g_counts, g_id, g_prev, g_n>>
bcVars == <<bc_section_id, bc_separator, bc_sections, bc_current, bc_visited, bc_titles, bc_result, bc_pc>>
cpVars == <<c_mode, c_header, c_frontmatter, c_input, c_sunk, c_buffer, c_pc, write_lock, header_written, frontmatter_written, c_file, c_closed>>
rdVars == <<rd_files, file_index, section_index, current_sections, finished, output_idx, output, rd_out, rd_pc>>
vars == <<secVars, blkVars, listVars, tblVars, rndVars, dbsVars, pdcVars,
          genVars,
          bcVars,
          cpVars,
          rdVars>>

----------------------------------------------------------------------------
\* Strings

NL == "\n"
CR == "\r"
TAB == "\t"
QUOTE == "\""
BSL == "\\"

SeqsUpTo(S, n) == UNION {[1..k -> S] : k \in 0..n}

RECURSIVE Flatten(_)
Flatten(ss) == IF ss = <<>> THEN <<>> ELSE Head(ss) \o Flatten(Tail(ss))

Repeat(c, n) == [k \in 1..n |-> c]

Range(s) == {s[k] : k \in 1..Len(s)}

\* s.substr(pos, n) with 0-based pos, clamped to the end of s
Substr(s, pos, n) ==
    LET last == IF pos + n > Len(s) THEN Len(s) ELSE pos + n
    IN  SubSeq(s, pos + 1, last)

\* s.find(c, from): 0-based index of the first c at or after from, -1 for npos
Find(s, c, from) ==
    LET hits == {k \in from..(Len(s) - 1) : s[k + 1] = c}
    IN  IF hits = {} THEN -1 ELSE CHOOSE k \in hits : \A m \in hits : k <= m

\* s.rfind(c): 0-based index of the last c, -1 for npos
RFind(s, c) ==
    LET hits == {k \in 0..(Len(s) - 1) : s[k + 1] = c}
    IN  IF hits = {} THEN -1 ELSE CHOOSE k \in hits : \A m \in hits : k >= m

\* s.find(pat): 0-based index of the first occurrence of pat, -1 for npos
FindStr(s, pat) ==
    LET hits == {k \in 0..(Len(s) - Len(pat)) : SubSeq(s, k + 1, k + Len(pat)) = pat}
    IN  IF hits = {} THEN -1 ELSE CHOOSE k \in hits : \A m \in hits : k <= m

EndsWith(s, suf) ==
    /\ Len(suf) <= Len(s)
    /\ SubSeq(s, Len(s) - Len(suf) + 1, Len(s)) = suf

DigitChars == <<"0", "1", "2", "3", "4", "5", "6", "7", "8", "9">>

\* std::to_string of a non-negative int
RECURSIVE ToDecimal(_)
ToDecimal(n) ==
    IF n < 10 THEN <<DigitChars[n + 1]>>
    ELSE ToDecimal(n \div 10) \o <<DigitChars[(n % 10) + 1]>>

\* std::to_string of an int
IntToString(n) == IF n < 0 THEN <<"-">> \o ToDecimal(0 - n) ELSE ToDecimal(n)

----------------------------------------------------------------------------
\* GenerateSectionId

UpperChars == <<"A", "B", "C", "D", "E", "F", "G", "H", "I", "J", "K", "L", "M",
                "N", "O", "P", "Q", "R", "S", "T", "U", "V", "W", "X", "Y", "Z">>
LowerChars == <<"a", "b", "c", "d", "e", "f", "g", "h", "i", "j", "k", "l", "m",
                "n", "o", "p", "q", "r", "s", "t", "u", "v", "w", "x", "y", "z">>

\* ::tolower on one character
ToLowerChar(c) ==
    IF c \in Range(UpperChars)
    THEN LowerChars[CHOOSE k \in 1..26 : UpperChars[k] = c]
    ELSE c

\* the character class [a-z0-9\-_]
IsIdChar(c) == c \in Range(LowerChars) \cup Range(DigitChars) \cup {"-", "_"}

\* regex_replace(id, [^a-z0-9\-_], "-") after std::transform(::tolower)
LowerAndReplace(text) ==
    [k \in 1..Len(text) |->
        LET c == ToLowerChar(text[k]) IN IF IsIdChar(c) THEN c ELSE "-"]

\* the text with its runs of hyphens left as they are
KeepHyphens(s) == s

\* regex_replace(id, -+, "-")
RECURSIVE CollapseHyphens(_)
CollapseHyphens(s) ==
    IF Len(s) < 2 THEN s
    ELSE IF s[1] = "-" /\ s[2] = "-" THEN CollapseHyphens(Tail(s))
    ELSE <<s[1]>> \o CollapseHyphens(Tail(s))

\* regex_replace(id, ^-+|-+$, "")
RECURSIVE TrimHyphens(_)
TrimHyphens(s) ==
    IF s = <<>> THEN s
    ELSE IF s[1] = "-" THEN TrimHyphens(Tail(s))
    ELSE IF s[Len(s)] = "-" THEN TrimHyphens(SubSeq(s, 1, Len(s) - 1))
    ELSE s

Slug(text) == TrimHyphens(CollapseHyphens(LowerAndReplace(text)))

\* id_counts.find(id): the stored count, 0 when the key is absent
CountOf(counts, id) == IF id \in DOMAIN counts THEN counts[id] ELSE 0

GenerateSectionId(heading_text, counts) ==
    LET id == Slug(heading_text)
    IN  IF CountOf(counts, id) > 0
        THEN id \o <<"-">> \o ToDecimal(CountOf(counts, id))
        ELSE id

\* id_counts[base_id]++
Increment(counts, id) ==
    [k \in DOMAIN counts \cup {id} |-> IF k = id THEN CountOf(counts, id) + 1 ELSE counts[k]]

\* section.id = id_counts[base_id] > 1 ? base_id + "-" + to_string(id_counts[base_id] - 1) : base_id
SectionIdOf(base_id, counts) ==
    IF counts[base_id] > 1
    THEN base_id \o <<"-">> \o ToDecimal(counts[base_id] - 1)
    ELSE base_id

----------------------------------------------------------------------------
\* The cmark node tree

HeadingNode(l, t) == [type |-> "heading", level |-> l, title |-> t, text |-> <<>>, kids |-> <<>>]
ParagraphNode(x) == [type |-> "paragraph", level |-> 0, title |-> <<>>, text |-> x, kids |-> <<>>]
QuoteNode(ks) == [type |-> "block_quote", level |-> 0, title |-> <<>>, text |-> <<>>, kids |-> ks]

\* the node a path points to
NodeAt(d, p) == IF Len(p) = 1 THEN d[p[1]] ELSE d[p[1]].kids[p[2]]

\* cmark_node_next: the next sibling, <<>> when there is none
NodeNext(d, p) ==
    IF Len(p) = 1
    THEN IF p[1] < Len(d) THEN <<p[1] + 1>> ELSE <<>>
    ELSE IF p[2] < Len(d[p[1]].kids) THEN <<p[1], p[2] + 1>> ELSE <<>>

\* the heading nodes among the children of block quote k, in order
RECURSIVE KidHeadings(_, _, _)
KidHeadings(d, k, c) ==
    IF c > Len(d[k].kids) THEN <<>>
    ELSE (IF d[k].kids[c].type = "heading" THEN <<(<<k, c>>)>> ELSE <<>>)
         \o KidHeadings(d, k, c + 1)

\* first pass: every heading node the iterator enters, in document order
RECURSIVE CollectHeadingNodes(_, _)
CollectHeadingNodes(d, k) ==
    IF k > Len(d) THEN <<>>
    ELSE (IF d[k].type = "heading" THEN <<(<<k>>)>> ELSE KidHeadings(d, k, 1))
         \o CollectHeadingNodes(d, k + 1)

\* the lines of s, each without its newline (s ends with a newline or is empty)
RECURSIVE SplitLines(_, _)
SplitLines(s, cur) ==
    IF s = <<>> THEN (IF cur = <<>> THEN <<>> ELSE <<cur>>)
    ELSE IF Head(s) = NL THEN <<cur>> \o SplitLines(Tail(s), <<>>)
    ELSE SplitLines(Tail(s), Append(cur, Head(s)))

\* cmark_render_commonmark of one leaf block
RenderLeaf(n) ==
    IF n.type = "heading"
    THEN Repeat("#", n.level) \o <<" ">> \o n.title \o <<NL>>
    ELSE n.text \o <<NL>>

\* the children of a block quote, a blank line between two of them
RECURSIVE RenderKids(_)
RenderKids(ks) ==
    IF ks = <<>> THEN <<>>
    ELSE IF Len(ks) = 1 THEN RenderLeaf(ks[1])
    ELSE RenderLeaf(ks[1]) \o <<NL>> \o RenderKids(Tail(ks))

QuoteLine(line) == (IF line = <<>> THEN <<">">> ELSE <<">", " ">> \o line) \o <<NL>>

\* cmark_render_commonmark(node): the node re-serialised to Markdown
RenderCommonmark(n) ==
    IF n.type = "block_quote"
    THEN LET lines == SplitLines(RenderKids(n.kids), <<>>)
         IN  Flatten([k \in 1..Len(lines) |-> QuoteLine(lines[k])])
    ELSE RenderLeaf(n)

\* Source lines.  The document text is its top-level nodes with one blank
\* line between two of them; a heading takes one line, a paragraph one line
\* per line of its text, a block quote the lines of its children with one
\* ">" line between two of them.
RECURSIVE SumHeights(_, _)
LeafHeight(n) == IF n.type = "heading" THEN 1 ELSE Len(SplitLines(n.text \o <<NL>>, <<>>))

NodeHeight(n) ==
    IF n.type = "block_quote"
    THEN LET hs == [c \in 1..Len(n.kids) |-> LeafHeight(n.kids[c])]
         IN  SumHeights(hs, Len(hs)) + (IF Len(hs) > 0 THEN Len(hs) - 1 ELSE 0)
    ELSE LeafHeight(n)

\* hs[1] + ... + hs[k]
SumHeights(hs, k) == IF k = 0 THEN 0 ELSE hs[k] + SumHeights(hs, k - 1)

\* cmark_node_get_start_line(node), 1-based
StartLine(d, p) ==
    LET tops == [k \in 1..(p[1] - 1) |-> NodeHeight(d[k]) + 1]
        top == 1 + SumHeights(tops, Len(tops))
    IN  IF Len(p) = 1 THEN top
        ELSE LET before == [c \in 1..(p[2] - 1) |-> LeafHeight(d[p[1]].kids[c]) + 1]
             IN  top + SumHeights(before, Len(before))

\* cmark_node_get_end_line(node)
EndLine(d, p) ==
    StartLine(d, p) + (IF Len(p) = 1 THEN NodeHeight(d[p[1]]) ELSE LeafHeight(NodeAt(d, p))) - 1

----------------------------------------------------------------------------
\* ExtractSections: the second pass

DefaultMaxContentLength == 2000

\* idx_t effective_max_length = max_content_length > 0 ? max_content_length : 2000
EffectiveMaxLength(m) == IF m > 0 THEN m ELSE DefaultMaxContentLength

\* level < min_level || level > max_level
OutOfRange(level) == level < min_level \/ level > max_level

\* the backwards scan for the parent: index into secs (1-based), 0 when none
RECURSIVE FindParentWrong(_, _, _)
FindParentWrong(secs, j, level) ==
    IF j = 0 THEN 0
    ELSE IF secs[j].level <= level THEN j
    ELSE FindParentWrong(secs, j - 1, level)

RECURSIVE FindParentFrom(_, _, _)
FindParentFrom(secs, j, level) ==
    IF j = 0 THEN 0
    ELSE IF secs[j].level < level THEN j
    ELSE FindParentFrom(secs, j - 1, level)

FindParent(secs, level) == FindParentFrom(secs, Len(secs), level)

\* the forward scan for stop_node: 0-based index into heading_nodes, -1 for nullptr
RECURSIVE FindStop(_, _, _, _)
FindStop(levels, j, mode, level) ==
    IF j >= Len(levels) THEN -1
    ELSE IF mode = "minimal" THEN j
    ELSE IF levels[j + 1] <= level THEN j
    ELSE FindStop(levels, j + 1, mode, level)

\* the walk over the siblings that follow the heading
RECURSIVE WalkContent(_, _, _, _, _, _, _, _)
WalkContent(d, current, stop_node, mode, level, content_text, immediate_content, found) ==
    IF current = <<>>
    THEN [content_text |-> content_text, immediate_content |-> immediate_content]
    ELSE
      LET n == NodeAt(d, current)
          isHeading == n.type = "heading"
          breaks == \/ isHeading /\ (mode = "minimal" \/ n.level <= level)
                    \/ current = stop_node
          first == isHeading /\ mode = "smart" /\ ~found
      IN  IF breaks
          THEN [content_text |-> content_text, immediate_content |-> immediate_content]
          ELSE WalkContent(d, NodeNext(d, current), stop_node, mode, level,
                           content_text \o RenderCommonmark(n),
                           IF first THEN content_text ELSE immediate_content,
                           found \/ first)

\* the nodes the walk renders into content_text, in order
RECURSIVE WalkNodes(_, _, _, _, _)
WalkNodes(d, current, stop_node, mode, level) ==
    IF current = <<>> THEN <<>>
    ELSE
      LET n == NodeAt(d, current)
          breaks == \/ n.type = "heading" /\ (mode = "minimal" \/ n.level <= level)
                    \/ current = stop_node
      IN  IF breaks THEN <<>>
          ELSE <<current>> \o WalkNodes(d, NodeNext(d, current), stop_node, mode, level)

\* section.end_line: the heading's end line, replaced by stop_line when a
\* stop heading was found and stop_line > 0
SectionEndLine(d, heading, stop_node) ==
    LET stop_line == IF stop_node = <<>> THEN 0 ELSE StartLine(d, stop_node) - 1
    IN  IF include_content /\ stop_line > 0 THEN stop_line ELSE EndLine(d, heading)

\* smart mode: the text kept before the reference lines
SmartBody(content_text, immediate_content, effective_max_length) ==
    IF immediate_content # <<>> THEN immediate_content
    ELSE LET cut == Substr(content_text, 0, effective_max_length)
             last_newline == RFind(cut, NL)
         IN  IF last_newline # -1 /\ last_newline > effective_max_length \div 2
             THEN Substr(cut, 0, last_newline)
             ELSE cut

\* smart mode: the headings that get a reference line (0-based indexes)
RECURSIVE SubsectionRefsWrong(_, _, _)
SubsectionRefsWrong(levels, j, level) ==
    IF j >= Len(levels) THEN <<>>
    ELSE IF levels[j + 1] <= level THEN <<>>
    ELSE <<j>> \o SubsectionRefsWrong(levels, j + 1, level)

RECURSIVE SubsectionRefs(_, _, _)
SubsectionRefs(levels, j, level) ==
    IF j >= Len(levels) THEN <<>>
    ELSE IF levels[j + 1] <= level THEN <<>>
    ELSE (IF levels[j + 1] = level + 1 THEN <<j>> ELSE <<>>)
         \o SubsectionRefs(levels, j + 1, level)

RefLinePrefix == <<NL, ".", ".", ".", " ", "(", "s", "e", "e", " ", "#">>
RefLineSuffix == <<")", NL>>

\* "\n... (see #" + sub_id + ")\n"
RefLine(sub_id) == RefLinePrefix \o sub_id \o RefLineSuffix

\* sections[j].section_path + "/" + section.id
SectionPathNoSeparator(parent_path, id) == parent_path \o id

SectionPath(parent_path, id) == parent_path \o <<"/">> \o id

\* The section built for heading_nodes[idx] (idx 0-based) with the dedup table
\* as it stands after this heading's own id was counted.  The fields h, full,
\* body, refs and captured record the pass for the properties below: the
\* heading's index, content_text, smart_content before the references, the
\* referenced headings with the id written for each, and the nodes rendered
\* into content_text.
BuildSection(d, nodes, levels, idx, secs, counts, base_id) ==
    LET heading == nodes[idx + 1]
        level == levels[idx + 1]
        title == NodeAt(d, heading).title
        id == SectionIdOf(base_id, counts)
        parent == FindParent(secs, level)
        stop == FindStop(levels, idx + 1, content_mode, level)
        stop_node == IF stop = -1 THEN <<>> ELSE nodes[stop + 1]
        walk == WalkContent(d, NodeNext(d, heading), stop_node, content_mode, level,
                            <<>>, <<>>, FALSE)
        eff == EffectiveMaxLength(max_content_length)
        truncate == content_mode = "smart" /\ Len(walk.content_text) > eff
        body == SmartBody(walk.content_text, walk.immediate_content, eff)
        refHeads == SubsectionRefs(levels, idx + 1, level)
        refs == [k \in 1..Len(refHeads) |->
                    [h |-> refHeads[k],
                     id |-> GenerateSectionId(NodeAt(d, nodes[refHeads[k] + 1]).title, counts)]]
        smart_content == body \o Flatten([k \in 1..Len(refs) |-> RefLine(refs[k].id)])
    IN  [id |-> id,
         level |-> level,
         title |-> title,
         start_line |-> StartLine(d, heading),
         end_line |-> SectionEndLine(d, heading, stop_node),
         captured |-> IF include_content
                      THEN WalkNodes(d, NodeNext(d, heading), stop_node, content_mode, level)
                      ELSE <<>>,
         parent_id |-> IF parent = 0 THEN <<>> ELSE secs[parent].id,
         section_path |-> IF parent = 0 THEN id
                          ELSE SectionPath(secs[parent].section_path, id),
         content |-> IF ~include_content THEN <<>>
                     ELSE IF truncate THEN smart_content
                     ELSE walk.content_text,
         h |-> idx,
         full |-> IF include_content THEN walk.content_text ELSE <<>>,
         truncated |-> include_content /\ truncate,
         body |-> IF include_content /\ truncate THEN body ELSE <<>>,
         refs |-> IF include_content /\ truncate THEN refs ELSE <<>>]

\* if (markdown_str.empty()) return sections;
ReturnEmpty ==
    /\ pc = "start"
    /\ doc = <<>>
    /\ pc' = "done"
    /\ UNCHANGED <<doc, min_level, max_level, include_content, content_mode,
                   max_content_length, heading_nodes, heading_levels, i, sections,
                   id_counts>>
    /\ UNCHANGED <<blkVars, listVars, tblVars, rndVars, dbsVars, pdcVars, genVars, bcVars, cpVars, rdVars>>

\* parse, then the first pass: collect all heading nodes and their levels
FirstPass ==
    /\ pc = "start"
    /\ doc # <<>>
    /\ heading_nodes' = CollectHeadingNodes(doc, 1)
    /\ heading_levels' = [k \in 1..Len(heading_nodes') |-> NodeAt(doc, heading_nodes'[k]).level]
    /\ i' = 0
    /\ pc' = "loop"
    /\ UNCHANGED <<doc, min_level, max_level, include_content, content_mode,
                   max_content_length, sections, id_counts>>
    /\ UNCHANGED <<blkVars, listVars, tblVars, rndVars, dbsVars, pdcVars, genVars, bcVars, cpVars, rdVars>>

\* second pass, a heading outside the requested range: continue
SkipHeading ==
    /\ pc = "loop"
    /\ i < Len(heading_nodes)
    /\ OutOfRange(heading_levels[i + 1])
    /\ i' = i + 1
    /\ UNCHANGED <<doc, min_level, max_level, include_content, content_mode,
                   max_content_length, heading_nodes, heading_levels, sections,
                   id_counts, pc>>
    /\ UNCHANGED <<blkVars, listVars, tblVars, rndVars, dbsVars, pdcVars, genVars, bcVars, cpVars, rdVars>>

\* second pass, a heading in range: one section is built and pushed
EmitSection ==
    /\ pc = "loop"
    /\ i < Len(heading_nodes)
    /\ ~OutOfRange(heading_levels[i + 1])
    /\ LET title == NodeAt(doc, heading_nodes[i + 1]).title
           base_id == GenerateSectionId(title, id_counts)
           counts == Increment(id_counts, base_id)
       IN  /\ id_counts' = counts
           /\ sections' = Append(sections,
                  BuildSection(doc, heading_nodes, heading_levels, i, sections, counts, base_id))
    /\ i' = i + 1
    /\ UNCHANGED <<doc, min_level, max_level, include_content, content_mode,
                   max_content_length, heading_nodes, heading_levels, pc>>
    /\ UNCHANGED <<blkVars, listVars, tblVars, rndVars, dbsVars, pdcVars, genVars, bcVars, cpVars, rdVars>>

\* return sections;
ReturnSections ==
    /\ pc = "loop"
    /\ i = Len(heading_nodes)
    /\ pc' = "done"
    /\ UNCHANGED <<doc, min_level, max_level, include_content, content_mode,
                   max_content_length, heading_nodes, heading_levels, i, sections,
                   id_counts>>
    /\ UNCHANGED <<blkVars, listVars, tblVars, rndVars, dbsVars, pdcVars, genVars, bcVars, cpVars, rdVars>>

ExtractSectionsNext ==
    \/ ReturnEmpty
    \/ FirstPass
    \/ SkipHeading
    \/ EmitSection
    \/ ReturnSections

----------------------------------------------------------------------------
\* Machines that are not running under a specification rest in these states

IdleSections ==
    /\ doc = <<>> /\ min_level = 1 /\ max_level = 6
    /\ include_content = FALSE /\ content_mode = "minimal" /\ max_content_length = 0
    /\ heading_nodes = <<>> /\ heading_levels = <<>> /\ i = 0
    /\ sections = <<>> /\ id_counts = <<>> /\ pc = "idle"

IdleBlocks ==
    /\ b_frontmatter = <<>> /\ b_nodes = <<>> /\ b_child = 0
    /\ block_order = 1 /\ blocks = <<>> /\ b_pc = "idle"

IdleList ==
    /\ l_list = <<>> /\ l_block = <<>> /\ l_parsed = <<>> /\ l_out = <<>>
    /\ l_pc = "idle"

IdleTable ==
    /\ t_rows = <<>> /\ t_content = <<>> /\ t_headers = <<>> /\ t_body = <<>>
    /\ t_out = <<>> /\ t_pc = "idle"

IdleRender ==
    /\ r_blocks = [is_null |-> TRUE, children |-> <<>>] /\ r_i = 0 /\ result = <<>>
    /\ last_was_inline = FALSE
    /\ r_parts = <<>> /\ r_pc = "idle"

IdleToSections ==
    /\ d_blocks = [is_null |-> TRUE, children |-> <<>>] /\ d_i = 0 /\ d_sections = <<>>
    /\ current_title = <<>> /\ current_level = 0 /\ current_section_id = <<>>
    /\ current_content = <<>> /\ section_path_parts = <<>> /\ d_pc = "idle"

IdlePandoc == p_inlines = <<>> /\ p_content = <<>> /\ p_out = <<>> /\ p_pc = "idle"

IdleGenerate == g_text = <<>> /\ g_counts_in = <<>> /\ g_counts = <<>> /\ g_id = <<>> /\ g_prev = <<>> /\ g_n = 0

IdleBreadcrumb == bc_section_id = <<>> /\ bc_separator = <<>> /\ bc_sections = <<>> /\ bc_current = 0 /\ bc_visited = <<>> /\ bc_titles = <<>> /\ bc_result = <<>> /\ bc_pc = "idle"

IdleCopy == c_mode = "table" /\ c_header = TRUE /\ c_frontmatter = <<>> /\ c_input = <<>> /\ c_sunk = <<>> /\ c_buffer = <<>> /\ c_pc = <<>> /\ write_lock = 0 /\ header_written = FALSE /\ frontmatter_written = FALSE /\ c_file = <<>> /\ c_closed = TRUE

IdleReader == rd_files = <<>> /\ file_index = 0 /\ section_index = 0 /\ current_sections = <<>> /\ finished = TRUE /\ output_idx = 0 /\ output = <<>> /\ rd_out = <<>> /\ rd_pc = "idle"

\* the state of ExtractSections on entry, for a given document
EnterSections ==
    /\ heading_nodes = <<>> /\ heading_levels = <<>> /\ i = 0
    /\ sections = <<>> /\ id_counts = <<>> /\ pc = "start"

----------------------------------------------------------------------------
\* Section ids: documents of headings whose titles repeat or end in a number

MaxIdHeadings == 4

IdTitles == {<<"A">>, <<"A", "-", "1">>, <<"A", " ", "1", "!">>}

IdDocs == SeqsUpTo({HeadingNode(l, t) : l \in 1..2, t \in IdTitles}, MaxIdHeadings)

InitIds ==
    /\ doc \in IdDocs
    /\ min_level = 1
    /\ max_level \in {1, 6}
    /\ include_content = FALSE /\ content_mode = "minimal" /\ max_content_length = 0
    /\ EnterSections
    /\ IdleBlocks /\ IdleList /\ IdleTable /\ IdleRender /\ IdleToSections /\ IdlePandoc /\ IdleGenerate /\ IdleBreadcrumb /\ IdleCopy /\ IdleReader

SpecIds == InitIds /\ [][ExtractSectionsNext]_vars

\* C1: in one ExtractSections pass the ids of all emitted sections are
\* pairwise distinct, whatever the heading titles are.
C1_IdsPairwiseDistinct ==
    \A a, b \in 1..Len(sections) : a # b => sections[a].id # sections[b].id

\* the number of sections emitted before position k whose base slug is b
EarlierWithSlug(k, b) ==
    Cardinality({a \in 1..(k - 1) : Slug(sections[a].title) = b})

\* C10: the k-th emitted heading whose base slug is b receives the id b when
\* k = 1 and b + "-" + (k-1) when k >= 2.
C10_KthOccurrenceSuffix ==
    \A k \in 1..Len(sections) :
        LET b == Slug(sections[k].title)
            n == EarlierWithSlug(k, b)
        IN  sections[k].id = IF n = 0 THEN b ELSE b \o <<"-">> \o ToDecimal(n)

----------------------------------------------------------------------------
\* Hierarchy: documents of headings of several levels, under every level window

MaxLevel == 3
MaxHierHeadings == 3

HierTitles == {<<"A">>, <<"!">>}

HierDocs ==
    SeqsUpTo({HeadingNode(l, t) : l \in 1..MaxLevel, t \in HierTitles}, MaxHierHeadings)

InitHier ==
    /\ doc \in HierDocs
    /\ min_level \in 1..MaxLevel
    /\ max_level \in 1..MaxLevel
    /\ include_content = FALSE /\ content_mode = "minimal" /\ max_content_length = 0
    /\ EnterSections
    /\ IdleBlocks /\ IdleList /\ IdleTable /\ IdleRender /\ IdleToSections /\ IdlePandoc /\ IdleGenerate /\ IdleBreadcrumb /\ IdleCopy /\ IdleReader

SpecHier == InitHier /\ [][ExtractSectionsNext]_vars

\* the headings (0-based indexes) before heading h that are in the level
\* window and whose level is strictly smaller than that of heading h
SmallerBefore(h) ==
    {j \in 0..(h - 1) : /\ ~OutOfRange(heading_levels[j + 1])
                        /\ heading_levels[j + 1] < heading_levels[h + 1]}

SetMax(S) == CHOOSE x \in S : \A y \in S : y <= x

\* the emitted section built from heading h
SectionOfHeading(h) == CHOOSE k \in 1..Len(sections) : sections[k].h = h

\* the headings in the level window among the first n, in document order
RECURSIVE InRangeHeadings(_, _)
InRangeHeadings(j, n) ==
    IF j >= n THEN <<>>
    ELSE (IF OutOfRange(heading_levels[j + 1]) THEN <<>> ELSE <<j>>)
         \o InRangeHeadings(j + 1, n)

\* the emitted sections are the headings inside [min_level, max_level], in order
EmittedAreInRange ==
    [k \in 1..Len(sections) |-> sections[k].h] = InRangeHeadings(0, i)

ParentIsNearestSmaller(k) ==
    LET smaller == SmallerBefore(sections[k].h)
    IN  /\ smaller = {} => sections[k].parent_id = <<>>
        /\ smaller # {} =>
              LET p == SectionOfHeading(SetMax(smaller))
              IN  /\ sections[k].parent_id = sections[p].id
                  /\ p < k
                  /\ sections[p].level < sections[k].level

\* C2 (as amended): every emitted section's parent_id is the id of the
\* nearest earlier emitted section of strictly smaller level, and is empty
\* when there is none; headings outside [min_level, max_level] are never
\* emitted and never serve as a parent.
C2_ParentIsNearestSmallerLevel ==
    pc \in {"loop", "done"} =>
        /\ EmittedAreInRange
        /\ \A k \in 1..Len(sections) : ParentIsNearestSmaller(k)

\* C2 (as claimed): in addition parent_id is empty exactly when no earlier
\* emitted section has a smaller level.
C2_ParentEmptyExactlyWhenRoot ==
    pc \in {"loop", "done"} =>
        /\ EmittedAreInRange
        /\ \A k \in 1..Len(sections) :
              /\ ParentIsNearestSmaller(k)
              /\ (sections[k].parent_id = <<>>) <=> (SmallerBefore(sections[k].h) = {})

\* a section with a parent was emitted although a skipped heading of smaller
\* level lies between the parent and the section
C2_ParentAcrossSkippedHeading ==
    \E k \in 1..Len(sections) :
        /\ sections[k].parent_id # <<>>
        /\ SmallerBefore(sections[k].h) # {}
        /\ \E j \in (SetMax(SmallerBefore(sections[k].h)) + 1)..(sections[k].h - 1) :
              /\ OutOfRange(heading_levels[j + 1])
              /\ heading_levels[j + 1] < sections[k].level

\* the emitted sections from the most distant ancestor of section k down to
\* section k itself, following the nearest earlier section of smaller level
RECURSIVE AncestorChain(_)
AncestorChain(k) ==
    LET smaller == SmallerBefore(sections[k].h)
    IN  IF smaller = {} THEN <<k>>
        ELSE AncestorChain(SectionOfHeading(SetMax(smaller))) \o <<k>>

RECURSIVE JoinIds(_)
JoinIds(chain) ==
    IF Len(chain) = 1 THEN sections[chain[1]].id
    ELSE JoinIds(SubSeq(chain, 1, Len(chain) - 1)) \o <<"/">> \o sections[chain[Len(chain)]].id

PathFollowsParent(k) ==
    LET smaller == SmallerBefore(sections[k].h)
    IN  /\ smaller = {} => sections[k].section_path = sections[k].id
        /\ smaller # {} =>
              sections[k].section_path =
                  sections[SectionOfHeading(SetMax(smaller))].section_path
                      \o <<"/">> \o sections[k].id

PathListsAncestors(k) ==
    LET chain == AncestorChain(k)
    IN  /\ sections[k].section_path = JoinIds(chain)
        /\ chain[Len(chain)] = k
        /\ \A a \in 1..(Len(chain) - 1) :
              /\ chain[a] < chain[a + 1]
              /\ sections[chain[a]].level < sections[chain[a + 1]].level

\* C11 (as amended): section_path equals the section's id when no earlier
\* emitted section has a smaller level, and the parent's section_path + "/" +
\* the section's id otherwise; so the path is the "/"-joined ids of all
\* ancestors, most distant first, of strictly increasing level, ending with
\* the section's own id.
C11_PathIsParentPathPlusId ==
    pc \in {"loop", "done"} =>
        \A k \in 1..Len(sections) : PathFollowsParent(k) /\ PathListsAncestors(k)

\* C11 (as claimed): the case split is on parent_id being empty.
C11_PathIsIdWhenParentIdEmpty ==
    pc \in {"loop", "done"} =>
        \A k \in 1..Len(sections) :
            /\ PathListsAncestors(k)
            /\ sections[k].parent_id = <<>> => sections[k].section_path = sections[k].id
            /\ sections[k].parent_id # <<>> => PathFollowsParent(k)

\* a section two levels deep was emitted: its path names its grandparent, its
\* parent and itself
C11_PathOfGrandchild ==
    \E k \in 1..Len(sections) :
        /\ Len(AncestorChain(k)) = 3
        /\ sections[k].section_path = <<"a", "/", "a", "-", "1", "/", "a", "-", "1", "-", "1">>

----------------------------------------------------------------------------
\* Content capture: documents of headings, paragraphs and block quotes (which
\* may hold a heading), under the three content modes

MaxContentNodes == 3
SmallMaxLength == 3

TitleA == <<"A">>
ShortText == <<"x">>
LongText == <<"x", "x", NL, "y", "y", NL, "z", "z">>

ContentNodes ==
    {HeadingNode(l, TitleA) : l \in 1..MaxLevel}
    \cup {ParagraphNode(ShortText), ParagraphNode(LongText)}
    \cup {QuoteNode(<<HeadingNode(l, TitleA), ParagraphNode(ShortText)>>) : l \in 1..MaxLevel}
    \cup {QuoteNode(<<ParagraphNode(ShortText)>>)}

ContentDocs == SeqsUpTo(ContentNodes, MaxContentNodes)

InitContent ==
    /\ doc \in ContentDocs
    /\ min_level = 1
    /\ max_level \in {MaxLevel - 1, MaxLevel}
    /\ include_content = TRUE
    /\ content_mode \in {"minimal", "full", "smart"}
    /\ max_content_length \in {0, SmallMaxLength}
    /\ EnterSections
    /\ IdleBlocks /\ IdleList /\ IdleTable /\ IdleRender /\ IdleToSections /\ IdlePandoc /\ IdleGenerate /\ IdleBreadcrumb /\ IdleCopy /\ IdleReader

SpecContent == InitContent /\ [][ExtractSectionsNext]_vars

\* the first heading after heading h (0-based) at which capture must stop:
\* any heading in minimal mode, a heading of level <= the section's otherwise;
\* -1 when there is none
StopHeading(h) ==
    LET stops == {j \in (h + 1)..(Len(heading_levels) - 1) :
                     \/ content_mode = "minimal"
                     \/ heading_levels[j + 1] <= heading_levels[h + 1]}
    IN  IF stops = {} THEN -1 ELSE CHOOSE j \in stops : \A m \in stops : j <= m

\* node q, with all it contains, lies before node p in the document
EntirelyBefore(q, p) ==
    \/ q[1] < p[1]
    \/ Len(q) = 2 /\ Len(p) = 2 /\ q[1] = p[1] /\ q[2] < p[2]

\* the siblings that follow the node at path p, in order
FollowingSiblings(p) ==
    IF Len(p) = 1
    THEN [k \in 1..(Len(doc) - p[1]) |-> <<p[1] + k>>]
    ELSE [k \in 1..(Len(doc[p[1]].kids) - p[2]) |-> <<p[1], p[2] + k>>]

RECURSIVE RenderWhile(_, _)
RenderWhile(paths, stop) ==
    IF paths = <<>> THEN <<>>
    ELSE IF stop # <<>> /\ ~EntirelyBefore(Head(paths), stop) THEN <<>>
    ELSE RenderCommonmark(NodeAt(doc, Head(paths))) \o RenderWhile(Tail(paths), stop)

\* the siblings after heading h re-serialised in order, ending just before
\* the stop heading
ContentUpToStop(h) ==
    LET stop == StopHeading(h)
    IN  RenderWhile(FollowingSiblings(heading_nodes[h + 1]),
                    IF stop = -1 THEN <<>> ELSE heading_nodes[stop + 1])

Truncates(s) ==
    /\ include_content
    /\ content_mode = "smart"
    /\ Len(s.full) > EffectiveMaxLength(max_content_length)

\* C4: with include_content, the content of a section that is not truncated
\* is the concatenation of the re-serialised siblings that follow the heading,
\* ending just before the first following heading that is any heading
\* (minimal) or has level <= the section's (full, smart).
C4_ContentEndsBeforeStopHeading ==
    \A k \in 1..Len(sections) :
        (include_content /\ ~Truncates(sections[k])) =>
            sections[k].content = ContentUpToStop(sections[k].h)

\* the direct children of heading h: level = level(h) + 1, before the next
\* heading of level <= level(h); ascending
DirectChildren(h) ==
    {j \in (h + 1)..(Len(heading_levels) - 1) :
        /\ heading_levels[j + 1] = heading_levels[h + 1] + 1
        /\ \A m \in (h + 1)..j : heading_levels[m + 1] > heading_levels[h + 1]}

Descendants(h) ==
    {j \in (h + 1)..(Len(heading_levels) - 1) :
        \A m \in (h + 1)..j : heading_levels[m + 1] > heading_levels[h + 1]}

RECURSIVE Ascending(_)
Ascending(S) ==
    IF S = {} THEN <<>>
    ELSE LET x == CHOOSE y \in S : \A z \in S : y <= z
         IN  <<x>> \o Ascending(S \ {x})

\* the number of places where pat occurs in s
Occurrences(s, pat) ==
    Cardinality({k \in 0..(Len(s) - Len(pat)) : SubSeq(s, k + 1, k + Len(pat)) = pat})

\* C7: in smart mode a section whose accumulated content exceeds the limit
\* and that has a direct child ends with one reference line per direct child,
\* in document order, and holds no reference line for a deeper descendant.
C7_OneReferencePerDirectChild ==
    \A k \in 1..Len(sections) :
        LET s == sections[k]
            kids == Ascending(DirectChildren(s.h))
        IN  (Truncates(s) /\ kids # <<>>) =>
              /\ [r \in 1..Len(s.refs) |-> s.refs[r].h] = kids
              /\ EndsWith(s.content, Flatten([r \in 1..Len(s.refs) |-> RefLine(s.refs[r].id)]))
              /\ Occurrences(s.content, RefLinePrefix) = Len(kids)

\* a truncated section with a direct child and a deeper descendant was emitted
C7_TruncatedWithChildAndGrandchild ==
    \E k \in 1..Len(sections) :
        /\ Truncates(sections[k])
        /\ DirectChildren(sections[k].h) # {}
        /\ Descendants(sections[k].h) \ DirectChildren(sections[k].h) # {}
        /\ Len(sections[k].refs) = 1

\* the part of body past the first max characters lies within one line
OverrunWithinOneLine(body, max) ==
    LET over == Substr(body, max, Len(body))
    IN  \A k \in 1..(Len(over) - 1) : over[k] # NL

\* C8: in smart mode, when the accumulated content exceeds the limit, the
\* content before the reference lines does not exceed the limit by more than
\* one line.
C8_BodyOverrunAtMostOneLine ==
    \A k \in 1..Len(sections) :
        Truncates(sections[k]) =>
            OverrunWithinOneLine(sections[k].body, EffectiveMaxLength(max_content_length))

\* C9: the id written in a reference line equals the id the referenced child
\* receives when it is emitted as its own section in the same pass.
C9_ReferenceIdIsChildId ==
    \A k \in 1..Len(sections) :
        \A r \in 1..Len(sections[k].refs) :
            \A t \in 1..Len(sections) :
                sections[t].h = sections[k].refs[r].h =>
                    sections[t].id = sections[k].refs[r].id

----------------------------------------------------------------------------
\* ParseBlocks: the JSON encoders of the list and table branches

\* the escape switch of the list branch
EscapeListCharNoBackslash(c) ==
    IF c = QUOTE THEN <<BSL, QUOTE>>
    ELSE IF c = NL THEN <<BSL, "n">>
    ELSE IF c = CR THEN <<BSL, "r">>
    ELSE IF c = TAB THEN <<BSL, "t">>
    ELSE <<c>>

EscapeListChar(c) ==
    IF c = QUOTE THEN <<BSL, QUOTE>>
    ELSE IF c = BSL THEN <<BSL, BSL>>
    ELSE IF c = NL THEN <<BSL, "n">>
    ELSE IF c = CR THEN <<BSL, "r">>
    ELSE IF c = TAB THEN <<BSL, "t">>
    ELSE <<c>>

\* the escape switch of the table branch
EscapeCellChar(c) ==
    IF c = QUOTE THEN <<BSL, QUOTE>>
    ELSE IF c = BSL THEN <<BSL, BSL>>
    ELSE IF c = NL THEN <<BSL, "n">>
    ELSE <<c>>

\* "\"" + escaped + "\""
QuotedListItem(text) ==
    <<QUOTE>> \o Flatten([k \in 1..Len(text) |-> EscapeListChar(text[k])]) \o <<QUOTE>>

QuotedCell(text) ==
    <<QUOTE>> \o Flatten([k \in 1..Len(text) |-> EscapeCellChar(text[k])]) \o <<QUOTE>>

\* the parts joined by ", "
RECURSIVE JoinCommaSpace(_)
JoinCommaSpace(parts) ==
    IF parts = <<>> THEN <<>>
    ELSE IF Len(parts) = 1 THEN parts[1]
    ELSE parts[1] \o <<",", " ">> \o JoinCommaSpace(Tail(parts))

\* the JSON array of list items
EncodeList(items) ==
    <<"[">> \o JoinCommaSpace([k \in 1..Len(items) |-> QuotedListItem(items[k])]) \o <<"]">>

\* row_json of one table row
EncodeRow(cells) ==
    <<"[">> \o JoinCommaSpace([k \in 1..Len(cells) |-> QuotedCell(cells[k])]) \o <<"]">>

HeadersKey == <<QUOTE, "h", "e", "a", "d", "e", "r", "s", QUOTE>>
RowsKey == <<QUOTE, "r", "o", "w", "s", QUOTE>>

\* "{\"headers\": " + headers_json + ", \"rows\": [" + rows_json + "]}";
\* the first row is the header row
EncodeTable(rows) ==
    LET headers_json == IF rows = <<>> THEN <<>> ELSE EncodeRow(rows[1])
        rows_json == JoinCommaSpace([k \in 1..(Len(rows) - 1) |-> EncodeRow(rows[k + 1])])
    IN  <<"{">> \o HeadersKey \o <<":", " ">> \o headers_json
        \o <<",", " ">> \o RowsKey \o <<":", " ", "[">> \o rows_json \o <<"]", "}">>

----------------------------------------------------------------------------
\* DuckBlockFunctions: the list and table decoders

\* the unescaped character of the list decoder
ListUnescapeNoCR(c) ==
    IF c = "n" THEN NL ELSE IF c = "t" THEN TAB ELSE c

ListUnescape(c) ==
    IF c = "n" THEN NL ELSE IF c = "t" THEN TAB ELSE IF c = "r" THEN CR ELSE c

\* the scanning loop of ParseJsonListItems over items_str, from position k
RECURSIVE ScanListItems(_, _, _, _, _, _)
ScanListItems(str, k, current_item, in_string, escape_next, items) ==
    IF k > Len(str) THEN items
    ELSE LET c == str[k]
         IN  IF escape_next
             THEN ScanListItems(str, k + 1, Append(current_item, ListUnescape(c)),
                                in_string, FALSE, items)
             ELSE IF c = BSL
             THEN ScanListItems(str, k + 1, current_item, in_string, TRUE, items)
             ELSE IF c = QUOTE
             THEN ScanListItems(str, k + 1, IF in_string THEN <<>> ELSE current_item,
                                ~in_string, FALSE,
                                IF in_string THEN Append(items, current_item) ELSE items)
             ELSE ScanListItems(str, k + 1,
                                IF in_string THEN Append(current_item, c) ELSE current_item,
                                in_string, FALSE, items)

ParseJsonListItems(content) ==
    IF Len(content) < 2 \/ content[1] # "["
    THEN <<>>
    ELSE ScanListItems(Substr(content, 1, Len(content) - 2), 1, <<>>, FALSE, FALSE, <<>>)

\* the scanning loop ParseJsonTable runs over headers_str and over each row_str
RECURSIVE ScanCells(_, _, _, _, _, _)
ScanCells(str, k, current, in_string, escape_next, cells) ==
    IF k > Len(str) THEN cells
    ELSE LET c == str[k]
         IN  IF escape_next
             THEN ScanCells(str, k + 1, Append(current, c), in_string, FALSE, cells)
             ELSE IF c = BSL
             THEN ScanCells(str, k + 1, current, in_string, TRUE, cells)
             ELSE IF c = QUOTE
             THEN ScanCells(str, k + 1, IF in_string THEN <<>> ELSE current,
                            ~in_string, FALSE,
                            IF in_string THEN Append(cells, current) ELSE cells)
             ELSE ScanCells(str, k + 1,
                            IF in_string THEN Append(current, c) ELSE current,
                            in_string, FALSE, cells)

\* ParseJsonTable: the headers array
ParseTableHeaders(content) ==
    LET headers_start == FindStr(content, HeadersKey \o <<":">>)
        arr_start == IF headers_start = -1 THEN -1 ELSE Find(content, "[", headers_start)
        arr_end == IF arr_start = -1 THEN -1 ELSE Find(content, "]", arr_start)
    IN  IF headers_start # -1 /\ arr_start # -1 /\ arr_end # -1
        THEN ScanCells(Substr(content, arr_start + 1, arr_end - arr_start - 1),
                       1, <<>>, FALSE, FALSE, <<>>)
        ELSE <<>>

\* ParseJsonTable: the loop over the rows, from position pos
RECURSIVE ScanRows(_, _, _)
ScanRows(content, pos, rows) ==
    IF pos >= Len(content) THEN rows
    ELSE LET row_start == Find(content, "[", pos)
             row_end == IF row_start = -1 THEN -1 ELSE Find(content, "]", row_start)
         IN  IF row_start = -1 \/ row_end = -1 THEN rows
             ELSE LET row == ScanCells(Substr(content, row_start + 1, row_end - row_start - 1),
                                       1, <<>>, FALSE, FALSE, <<>>)
                  IN  ScanRows(content, row_end + 1,
                               IF row # <<>> THEN Append(rows, row) ELSE rows)

\* ParseJsonTable: the rows array
ParseTableRows(content) ==
    LET rows_start == FindStr(content, RowsKey \o <<":">>)
        outer_start == IF rows_start = -1 THEN -1 ELSE Find(content, "[", rows_start)
    IN  IF rows_start # -1 /\ outer_start # -1
        THEN ScanRows(content, outer_start + 1, <<>>)
        ELSE <<>>

ParseJsonTable(content) ==
    [headers |-> ParseTableHeaders(content), rows |-> ParseTableRows(content)]

\* content.size() > 2 && content[0] == '[' && content[1] == '[' &&
\* content.find("\"t\":\"Align") != npos
IsPandocTableFormat(content) ==
    /\ Len(content) > 2
    /\ content[1] = "[" /\ content[2] = "["
    /\ FindStr(content, <<QUOTE, "t", QUOTE, ":", QUOTE, "A", "l", "i", "g", "n">>) # -1

----------------------------------------------------------------------------
\* RenderBlockElementToMarkdown: the list and table branches

\* the list branch; attributes.start is empty or a decimal number
RenderList(content, encoding, ordered, start) ==
    IF encoding = "json" /\ Len(content) > 2 /\ content[1] = "["
    THEN LET items == ParseJsonListItems(content)
         IN  Flatten([k \in 1..Len(items) |->
                        (IF ordered THEN IntToString(start + k - 1) \o <<".", " ">>
                         ELSE <<"-", " ">>)
                        \o items[k] \o <<NL>>])
             \o <<NL>>
    ELSE content \o <<NL, NL>>

\* "|" then " " + cell + " |" for each cell, then a newline
PipeRow(cells) ==
    <<"|">> \o Flatten([k \in 1..Len(cells) |-> <<" ">> \o cells[k] \o <<" ", "|">>]) \o <<NL>>

\* the header row, the separator row, the data rows, a blank line
PipeTable(headers, rows, col_count) ==
    (IF headers # <<>> THEN PipeRow(headers)
     ELSE <<"|">> \o Flatten([k \in 1..col_count |-> <<" ", "|">>]) \o <<NL>>)
    \o <<"|">> \o Flatten([k \in 1..col_count |-> <<"-", "-", "-", "|">>]) \o <<NL>>
    \o Flatten([k \in 1..Len(rows) |-> PipeRow(rows[k])])
    \o <<NL>>

\* the table branch for content that is not in the Pandoc format (the Pandoc
\* fallback is tried only for content that starts with "[[")
RenderTable(content, encoding) ==
    LET tryStandard == encoding = "json" /\ FindStr(content, HeadersKey) # -1
        t == IF tryStandard THEN ParseJsonTable(content) ELSE [headers |-> <<>>, rows |-> <<>>]
        parsed == tryStandard /\ t.headers # <<>>
    IN  IF parsed /\ (t.headers # <<>> \/ t.rows # <<>>)
        THEN PipeTable(t.headers, t.rows,
                       IF t.headers = <<>> /\ t.rows # <<>> THEN Len(t.rows[1])
                       ELSE Len(t.headers))
        ELSE content \o <<NL, NL>>

----------------------------------------------------------------------------
\* ParseBlocks

\* a top-level child of the parsed body
BlockNode(t, l, x) ==
    [type |-> t, level |-> l, text |-> x, info |-> <<>>, items |-> <<>>,
     ordered |-> FALSE, start |-> 0, rows |-> <<>>]

CodeNode(literal, info) == [BlockNode("code_block", 0, literal) EXCEPT !.info = info]
ListNode(items, ordered, start) ==
    [BlockNode("list", 0, <<>>) EXCEPT !.items = items, !.ordered = ordered, !.start = start]
TableNode(rows) == [BlockNode("table", 0, <<>>) EXCEPT !.rows = rows]

\* while (!s.empty() && s.back() is one of chars) s.pop_back();
RECURSIVE TrimTrailing(_, _)
TrimTrailing(str, chars) ==
    IF str # <<>> /\ str[Len(str)] \in chars
    THEN TrimTrailing(SubSeq(str, 1, Len(str) - 1), chars)
    ELSE str

\* the block quote branch: one rendered line without its "> " or ">" prefix
StripQuotePrefix(line) ==
    IF Len(line) >= 2 /\ line[1] = ">" /\ line[2] = " " THEN Substr(line, 2, Len(line))
    ELSE IF Len(line) >= 1 /\ line[1] = ">" THEN Substr(line, 1, Len(line))
    ELSE line

StripQuote(md) ==
    LET lines == SplitLines(md, <<>>)
    IN  TrimTrailing(Flatten([k \in 1..Len(lines) |-> StripQuotePrefix(lines[k]) \o <<NL>>]),
                     {NL})

\* the code branch: language and info_string from the fence info
CodeAttributes(info) ==
    LET space_pos == Find(info, " ", 0)
    IN  IF info = <<>> THEN <<>>
        ELSE IF space_pos # -1
        THEN [language |-> Substr(info, 0, space_pos), info_string |-> info]
        ELSE [language |-> info]

\* the list branch: ordered, and start for an ordered list
ListAttributes(ordered, start) ==
    IF ordered THEN [ordered |-> <<"t", "r", "u", "e">>, start |-> ToDecimal(start)]
    ELSE [ordered |-> <<"f", "a", "l", "s", "e">>]

\* the record the switch builds for one top-level child
BlockOf(n, order) ==
    LET base == [block_type |-> "", content |-> <<>>, level |-> -1, encoding |-> "text",
                 attributes |-> <<>>, block_order |-> order]
    IN  IF n.type = "heading"
        THEN [base EXCEPT !.block_type = "heading", !.level = n.level, !.content = n.text,
                          !.attributes = [id |-> GenerateSectionId(n.text, <<>>)]]
        ELSE IF n.type = "paragraph"
        THEN [base EXCEPT !.block_type = "paragraph",
                          !.content = TrimTrailing(n.text \o <<NL>>, {NL, CR})]
        ELSE IF n.type = "code_block"
        THEN [base EXCEPT !.block_type = "code", !.content = TrimTrailing(n.text, {NL}),
                          !.attributes = CodeAttributes(n.info)]
        ELSE IF n.type = "block_quote"
        THEN [base EXCEPT !.block_type = "blockquote", !.level = 1,
                          !.content = StripQuote(n.text)]
        ELSE IF n.type = "list"
        THEN [base EXCEPT !.block_type = "list", !.level = 1, !.encoding = "json",
                          !.content = EncodeList(n.items),
                          !.attributes = ListAttributes(n.ordered, n.start)]
        ELSE IF n.type = "thematic_break"
        THEN [base EXCEPT !.block_type = "hr"]
        ELSE IF n.type = "html_block"
        THEN [base EXCEPT !.block_type = "html", !.content = TrimTrailing(n.text, {NL})]
        ELSE IF n.type = "table"
        THEN [base EXCEPT !.block_type = "table", !.encoding = "json",
                          !.content = EncodeTable(n.rows)]
        ELSE [base EXCEPT !.block_type = "raw", !.content = n.text,
                          !.attributes = [original_type |-> n.type]]

\* the frontmatter record, pushed when ExtractRawFrontmatter returns text
FrontmatterBlock(fm, order) ==
    [block_type |-> "frontmatter", content |-> fm, level |-> 0, encoding |-> "yaml",
     attributes |-> <<>>, block_order |-> order]

\* block_order++ : the value left in the counter
KeepOrder(order) == order

NextOrder(order) == order + 1

\* if (markdown_str.empty()) return blocks;
BlocksReturnEmpty ==
    /\ b_pc = "start"
    /\ b_frontmatter = <<>> /\ b_nodes = <<>>
    /\ b_pc' = "done"
    /\ UNCHANGED <<b_frontmatter, b_nodes, b_child, block_order, blocks>>
    /\ UNCHANGED <<secVars, listVars, tblVars, rndVars, dbsVars, pdcVars, genVars, bcVars, cpVars, rdVars>>

\* frontmatter check, then the body is parsed
CheckFrontmatter ==
    /\ b_pc = "start"
    /\ ~(b_frontmatter = <<>> /\ b_nodes = <<>>)
    /\ IF b_frontmatter # <<>>
       THEN /\ blocks' = Append(blocks, FrontmatterBlock(b_frontmatter, block_order))
            /\ block_order' = NextOrder(block_order)
       ELSE UNCHANGED <<blocks, block_order>>
    /\ b_pc' = "walk"
    /\ UNCHANGED <<b_frontmatter, b_nodes, b_child>>
    /\ UNCHANGED <<secVars, listVars, tblVars, rndVars, dbsVars, pdcVars, genVars, bcVars, cpVars, rdVars>>

\* one iteration of while (child)
VisitChild ==
    /\ b_pc = "walk"
    /\ b_child < Len(b_nodes)
    /\ blocks' = Append(blocks, BlockOf(b_nodes[b_child + 1], block_order))
    /\ block_order' = NextOrder(block_order)
    /\ b_child' = b_child + 1
    /\ UNCHANGED <<b_frontmatter, b_nodes, b_pc>>
    /\ UNCHANGED <<secVars, listVars, tblVars, rndVars, dbsVars, pdcVars, genVars, bcVars, cpVars, rdVars>>

\* return blocks;
BlocksReturn ==
    /\ b_pc = "walk"
    /\ b_child = Len(b_nodes)
    /\ b_pc' = "done"
    /\ UNCHANGED <<b_frontmatter, b_nodes, b_child, block_order, blocks>>
    /\ UNCHANGED <<secVars, listVars, tblVars, rndVars, dbsVars, pdcVars, genVars, bcVars, cpVars, rdVars>>

ParseBlocksNext ==
    \/ BlocksReturnEmpty
    \/ CheckFrontmatter
    \/ VisitChild
    \/ BlocksReturn

----------------------------------------------------------------------------
\* Block order: documents of every kind of top-level node, with and without
\* frontmatter

MaxBlocks == 3

BlockSamples ==
    {BlockNode("heading", 1, TitleA),
     BlockNode("heading", 2, TitleA),
     BlockNode("paragraph", 0, ShortText),
     CodeNode(<<"x", NL>>, <<"p", "y", " ", "a">>),
     CodeNode(<<"x", NL>>, <<>>),
     BlockNode("block_quote", 0, <<">", " ", "x", NL>>),
     ListNode(<<(<<"a">>), (<<"b">>)>>, FALSE, 0),
     ListNode(<<(<<"a">>)>>, TRUE, 3),
     BlockNode("thematic_break", 0, <<>>),
     BlockNode("html_block", 0, <<"<", "b", ">", NL>>),
     TableNode(<<(<<(<<"h">>)>>), (<<(<<"c">>)>>)>>),
     BlockNode("footnote_definition", 0, <<"x", NL>>)}

InitBlocks ==
    /\ b_frontmatter \in {<<>>, <<"k", ":", " ", "v">>}
    /\ b_nodes \in SeqsUpTo(BlockSamples, MaxBlocks)
    /\ b_child = 0 /\ block_order = 1 /\ blocks = <<>> /\ b_pc = "start"
    /\ IdleSections /\ IdleList /\ IdleTable /\ IdleRender /\ IdleToSections /\ IdlePandoc /\ IdleGenerate /\ IdleBreadcrumb /\ IdleCopy /\ IdleReader

SpecBlocks == InitBlocks /\ [][ParseBlocksNext]_vars

\* C3: the block_order values of the records ParseBlocks returns are 1..N in
\* emission order for a document with N top-level nodes, or 1..N+1 with the
\* frontmatter record holding order 1 when frontmatter is detected.
C3_BlockOrderIsOneToN ==
    /\ \A k \in 1..Len(blocks) : blocks[k].block_order = k
    /\ b_pc = "done" =>
          Len(blocks) = Len(b_nodes) + (IF b_frontmatter # <<>> THEN 1 ELSE 0)
    /\ (b_pc \in {"walk", "done"} /\ b_frontmatter # <<>>) =>
          /\ blocks[1].block_type = "frontmatter"
          /\ \A k \in 2..Len(blocks) : blocks[k].block_type # "frontmatter"
    /\ (b_pc \in {"walk", "done"} /\ b_frontmatter = <<>>) =>
          \A k \in 1..Len(blocks) : blocks[k].block_type # "frontmatter"

\* ParseBlocks returned for a document with frontmatter and several nodes
C3_ReturnedWithFrontmatter ==
    /\ b_pc = "done"
    /\ b_frontmatter # <<>>
    /\ Len(b_nodes) >= 2
    /\ Len(blocks) = Len(b_nodes) + 1

\* C17: no two heading records of one ParseBlocks pass carry the same
\* attributes.id, even when their heading texts are equal.
C17_HeadingRecordIdsDistinct ==
    \A a, b \in 1..Len(blocks) :
        (/\ a # b
         /\ blocks[a].block_type = "heading"
         /\ blocks[b].block_type = "heading")
            => blocks[a].attributes.id # blocks[b].attributes.id

----------------------------------------------------------------------------
\* List round trip: encode (ParseBlocks), decode (ParseJsonListItems), render

\* the record ParseBlocks builds for the list node
EncodeListBlock ==
    /\ l_pc = "start"
    /\ l_block' = BlockOf(ListNode(l_list.items, l_list.ordered, l_list.start), 1)
    /\ l_pc' = "encoded"
    /\ UNCHANGED <<l_list, l_parsed, l_out>>
    /\ UNCHANGED <<secVars, blkVars, tblVars, rndVars, dbsVars, pdcVars, genVars, bcVars, cpVars, rdVars>>

DecodeListItems ==
    /\ l_pc = "encoded"
    /\ l_parsed' = ParseJsonListItems(l_block.content)
    /\ l_pc' = "decoded"
    /\ UNCHANGED <<l_list, l_block, l_out>>
    /\ UNCHANGED <<secVars, blkVars, tblVars, rndVars, dbsVars, pdcVars, genVars, bcVars, cpVars, rdVars>>

\* std::stoi of a string std::to_string produced
RECURSIVE StoI(_)
StoI(str) ==
    IF str = <<>> THEN 0
    ELSE 10 * StoI(SubSeq(str, 1, Len(str) - 1))
         + ((CHOOSE k \in 1..10 : DigitChars[k] = str[Len(str)]) - 1)

\* GetAttribute: the value of key, "" when the key is absent
\* a NULL attributes Value, and a NULL value of one map entry
NullAttributes == [k \in {"<NULL>"} |-> <<>>]

NullValue == <<"<NULL>">>

GetAttribute(attributes, key) ==
    IF "<NULL>" \in DOMAIN attributes THEN <<>>
    ELSE IF key \in DOMAIN attributes /\ attributes[key] # NullValue THEN attributes[key]
    ELSE <<>>

\* the list branch of RenderBlockElementToMarkdown on the record
RenderListBlock ==
    /\ l_pc = "decoded"
    /\ LET ordered == GetAttribute(l_block.attributes, "ordered") = <<"t", "r", "u", "e">>
           start_str == GetAttribute(l_block.attributes, "start")
           start == IF start_str # <<>> THEN StoI(start_str) ELSE 1
       IN  l_out' = RenderList(l_block.content, l_block.encoding, ordered, start)
    /\ l_pc' = "rendered"
    /\ UNCHANGED <<l_list, l_block, l_parsed>>
    /\ UNCHANGED <<secVars, blkVars, tblVars, rndVars, dbsVars, pdcVars, genVars, bcVars, cpVars, rdVars>>

ListNext ==
    \/ EncodeListBlock
    \/ DecodeListItems
    \/ RenderListBlock

MaxListSize == 3

ItemSeparator == "SEP"

ListAlphabet == {"a", "n", QUOTE, BSL, ",", "[", "]", NL, CR, TAB}

\* the items of a flat sequence of characters and separators
RECURSIVE SplitItems(_, _)
SplitItems(flat, cur) ==
    IF flat = <<>> THEN <<cur>>
    ELSE IF Head(flat) = ItemSeparator THEN <<cur>> \o SplitItems(Tail(flat), <<>>)
    ELSE SplitItems(Tail(flat), Append(cur, Head(flat)))

\* every non-empty list whose characters and item boundaries number at most
\* MaxListSize
ListInputs ==
    {SplitItems(f, <<>>) : f \in SeqsUpTo(ListAlphabet \cup {ItemSeparator}, MaxListSize)}

InitList ==
    /\ l_list \in {[items |-> it, ordered |-> o.ordered, start |-> o.start] :
                      it \in ListInputs,
                      o \in {[ordered |-> FALSE, start |-> 0],
                             [ordered |-> TRUE, start |-> 1],
                             [ordered |-> TRUE, start |-> 12]}}
    /\ l_block = <<>> /\ l_parsed = <<>> /\ l_out = <<>> /\ l_pc = "start"
    /\ IdleSections /\ IdleBlocks /\ IdleTable /\ IdleRender /\ IdleToSections /\ IdlePandoc /\ IdleGenerate /\ IdleBreadcrumb /\ IdleCopy /\ IdleReader

SpecList == InitList /\ [][ListNext]_vars

\* "- " + item + newline for each item, then one blank line
BulletList(items) ==
    Flatten([k \in 1..Len(items) |-> <<"-", " ">> \o items[k] \o <<NL>>]) \o <<NL>>

\* C6: ParseJsonListItems applied to the list content the encoder produced
\* returns the same items in the same order, and rendering the record with
\* ordered = "false" yields "- " + item + newline per item and a blank line.
C6_ListRoundTrip ==
    /\ l_pc \in {"decoded", "rendered"} => l_parsed = l_list.items
    /\ (l_pc = "rendered" /\ ~l_list.ordered) => l_out = BulletList(l_list.items)

\* an unordered list of two items, the first holding a backslash and a quote,
\* was rendered
C6_RenderedEscapedItems ==
    /\ l_pc = "rendered"
    /\ ~l_list.ordered
    /\ Len(l_list.items) = 2
    /\ l_list.items[1] = <<BSL, QUOTE>>
    /\ l_out = <<"-", " ", BSL, QUOTE, NL, "-", " ", NL, NL>>

\* the parts joined by "," with no white space
RECURSIVE JoinComma(_)
JoinComma(parts) ==
    IF parts = <<>> THEN <<>>
    ELSE IF Len(parts) = 1 THEN parts[1]
    ELSE parts[1] \o <<",">> \o JoinComma(Tail(parts))

\* C19: the content of a list record is "[" + the quoted, escaped items
\* joined by "," with no white space + "]".
C19_ListContentHasNoWhitespace ==
    l_pc \in {"encoded", "decoded", "rendered"} =>
        l_block.content =
            <<"[">> \o JoinComma([k \in 1..Len(l_list.items) |-> QuotedListItem(l_list.items[k])])
            \o <<"]">>

----------------------------------------------------------------------------
\* Table round trip: encode (ParseBlocks), decode (ParseJsonTable), render

EncodeTableBlock ==
    /\ t_pc = "start"
    /\ t_content' = BlockOf(TableNode(t_rows), 1).content
    /\ t_pc' = "encoded"
    /\ UNCHANGED <<t_rows, t_headers, t_body, t_out>>
    /\ UNCHANGED <<secVars, blkVars, listVars, rndVars, dbsVars, pdcVars, genVars, bcVars, cpVars, rdVars>>

DecodeTable ==
    /\ t_pc = "encoded"
    /\ t_headers' = ParseJsonTable(t_content).headers
    /\ t_body' = ParseJsonTable(t_content).rows
    /\ t_pc' = "decoded"
    /\ UNCHANGED <<t_rows, t_content, t_out>>
    /\ UNCHANGED <<secVars, blkVars, listVars, rndVars, dbsVars, pdcVars, genVars, bcVars, cpVars, rdVars>>

\* the table branch of RenderBlockElementToMarkdown on the record
RenderTableBlock ==
    /\ t_pc = "decoded"
    /\ ~IsPandocTableFormat(t_content)
    /\ t_out' = RenderTable(t_content, "json")
    /\ t_pc' = "rendered"
    /\ UNCHANGED <<t_rows, t_content, t_headers, t_body>>
    /\ UNCHANGED <<secVars, blkVars, listVars, rndVars, dbsVars, pdcVars, genVars, bcVars, cpVars, rdVars>>

TableNext ==
    \/ EncodeTableBlock
    \/ DecodeTable
    \/ RenderTableBlock

MaxCols == 2
MaxDataRows == 1
MaxCellLen == 1

CellAlphabet == {"a", "[", "]", QUOTE, BSL, NL}

CellTexts == SeqsUpTo(CellAlphabet, MaxCellLen)

\* a header row and data rows, every row with the same number of cells
TableInputs ==
    UNION {[1..(1 + r) -> [1..c -> CellTexts]] : c \in 1..MaxCols, r \in 0..MaxDataRows}

InitTable ==
    /\ t_rows \in TableInputs
    /\ t_content = <<>> /\ t_headers = <<>> /\ t_body = <<>> /\ t_out = <<>>
    /\ t_pc = "start"
    /\ IdleSections /\ IdleBlocks /\ IdleList /\ IdleRender /\ IdleToSections /\ IdlePandoc /\ IdleGenerate /\ IdleBreadcrumb /\ IdleCopy /\ IdleReader

SpecTable == InitTable /\ [][TableNext]_vars

\* C5: decoding the table content the encoder produced returns the same
\* headers and the same rows with the same cells in the same order, and the
\* rendered pipe table lists those cells in that order.
C5_TableRoundTrip ==
    /\ t_pc \in {"decoded", "rendered"} =>
          /\ t_headers = Head(t_rows)
          /\ t_body = Tail(t_rows)
    /\ t_pc = "rendered" =>
          t_out = PipeTable(Head(t_rows), Tail(t_rows), Len(Head(t_rows)))

----------------------------------------------------------------------------
\* std::stoi

IsSpaceChar(c) == c \in {" ", NL, TAB, CR}

RECURSIVE SkipSpaces(_)
SkipSpaces(s) == IF s # <<>> /\ IsSpaceChar(Head(s)) THEN SkipSpaces(Tail(s)) ELSE s

RECURSIVE LeadingDigits(_)
LeadingDigits(s) ==
    IF s # <<>> /\ Head(s) \in Range(DigitChars)
    THEN <<Head(s)>> \o LeadingDigits(Tail(s))
    ELSE <<>>

RECURSIVE StripZeros(_)
StripZeros(s) == IF Len(s) > 1 /\ Head(s) = "0" THEN StripZeros(Tail(s)) ELSE s

DigitValue(c) == (CHOOSE k \in 1..10 : DigitChars[k] = c) - 1

RECURSIVE DigitsValue(_)
DigitsValue(s) ==
    IF s = <<>> THEN 0
    ELSE 10 * DigitsValue(SubSeq(s, 1, Len(s) - 1)) + DigitValue(s[Len(s)])

\* std::stoi(str): leading white space, an optional sign, then decimal digits
\* up to the first other character; ok is FALSE where stoi throws (no digit:
\* invalid_argument, a value outside int: out_of_range)
StdStoi(str) ==
    LET s1 == SkipSpaces(str)
        neg == s1 # <<>> /\ Head(s1) = "-"
        s2 == IF s1 # <<>> /\ Head(s1) \in {"+", "-"} THEN Tail(s1) ELSE s1
        digits == StripZeros(LeadingDigits(s2))
        n == Len(digits)
        v9 == DigitsValue(SubSeq(digits, 1, IF n > 9 THEN 9 ELSE n))
        last == IF n = 10 THEN DigitValue(digits[10]) ELSE 0
        fits == \/ n <= 9
                \/ /\ n = 10
                   /\ \/ v9 < 214748364
                      \/ v9 = 214748364 /\ last <= (IF neg THEN 8 ELSE 7)
        ok == n > 0 /\ fits
    IN  [ok |-> ok,
         value |-> IF ~ok THEN 0
                   ELSE IF n <= 9 THEN (IF neg THEN 0 - v9 ELSE v9)
                   ELSE IF neg THEN (0 - v9 * 10) - last
                   ELSE v9 * 10 + last]

----------------------------------------------------------------------------
\* RenderInlineElementToMarkdown

\* the backtick character
BACKTICK == "BT"

\* the title clause of a link or an image: " \"" + title + "\"" unless empty
TitleClause(title) ==
    IF title # <<>> THEN <<" ", QUOTE>> \o title \o <<QUOTE>> ELSE <<>>

RenderInlineElementToMarkdown(element_type, content, attributes) ==
    IF element_type = "link"
    THEN <<"[">> \o content \o <<"]", "(">> \o GetAttribute(attributes, "href")
         \o TitleClause(GetAttribute(attributes, "title")) \o <<")">>
    ELSE IF element_type = "image"
    THEN <<"!", "[">> \o content \o <<"]", "(">> \o GetAttribute(attributes, "src")
         \o TitleClause(GetAttribute(attributes, "title")) \o <<")">>
    ELSE IF element_type \in {"bold", "strong"}
    THEN <<"*", "*">> \o content \o <<"*", "*">>
    ELSE IF element_type \in {"italic", "emphasis", "em"}
    THEN <<"*">> \o content \o <<"*">>
    ELSE IF element_type = "code"
    THEN (IF Find(content, BACKTICK, 0) # -1
          THEN <<BACKTICK, BACKTICK, " ">> \o content \o <<" ", BACKTICK, BACKTICK>>
          ELSE <<BACKTICK>> \o content \o <<BACKTICK>>)
    ELSE IF element_type = "text" THEN content
    ELSE IF element_type = "space" THEN <<" ">>
    ELSE IF element_type = "softbreak" THEN <<NL>>
    ELSE IF element_type \in {"linebreak", "br"} THEN <<" ", " ", NL>>
    ELSE IF element_type \in {"strikethrough", "del"}
    THEN <<"~", "~">> \o content \o <<"~", "~">>
    ELSE IF element_type \in {"superscript", "sup"} THEN <<"^">> \o content \o <<"^">>
    ELSE IF element_type \in {"subscript", "sub"} THEN <<"~">> \o content \o <<"~">>
    ELSE IF element_type = "underline"
    THEN <<"<", "u", ">">> \o content \o <<"<", "/", "u", ">">>
    ELSE IF element_type = "smallcaps"
    THEN <<"<", "s", "p", "a", "n", " ", "s", "t", "y", "l", "e", "=", QUOTE, "f", "o", "n", "t", "-", "v", "a", "r", "i", "a", "n", "t", ":", " ", "s", "m", "a", "l", "l", "-", "c", "a", "p", "s", QUOTE, ">">> \o content \o <<"<", "/", "s", "p", "a", "n", ">">>
    ELSE IF element_type = "math"
    THEN (IF GetAttribute(attributes, "display") = <<"b", "l", "o", "c", "k">>
          THEN <<"$", "$">> \o content \o <<"$", "$">>
          ELSE <<"$">> \o content \o <<"$">>)
    ELSE IF element_type = "raw" THEN content
    ELSE IF element_type = "quoted"
    THEN (IF GetAttribute(attributes, "quote_type") = <<"s", "i", "n", "g", "l", "e">>
          THEN <<"'">> \o content \o <<"'">>
          ELSE <<QUOTE>> \o content \o <<QUOTE>>)
    ELSE IF element_type = "cite"
    THEN (IF GetAttribute(attributes, "key") # <<>>
          THEN <<"[", "@">> \o GetAttribute(attributes, "key") \o <<"]">>
          ELSE content)
    ELSE IF element_type = "note" THEN <<"[", "^">> \o content \o <<"]">>
    ELSE content

----------------------------------------------------------------------------
\* RenderBlockElementToMarkdown

\* the heading branch: the heading_level attribute takes priority over the
\* level field; the result is clamped to 1..6
HeadingLevelNoClamp(level, attributes) ==
    LET attr == GetAttribute(attributes, "heading_level")
    IN  IF attr # <<>> THEN (IF StdStoi(attr).ok THEN StdStoi(attr).value ELSE 1)
        ELSE IF level > 0 /\ level <= 6 THEN level
        ELSE 1

HeadingLevel(level, attributes) ==
    LET attr == GetAttribute(attributes, "heading_level")
        heading_level == IF attr # <<>>
                         THEN (IF StdStoi(attr).ok THEN StdStoi(attr).value ELSE 1)
                         ELSE IF level > 0 /\ level <= 6 THEN level
                         ELSE 1
    IN  IF heading_level < 1 THEN 1
        ELSE IF heading_level > 6 THEN 6
        ELSE heading_level

\* the block quote branch: "> " + line + "\n" for every line of content
QuoteLines(content) ==
    LET lines == SplitLines(content, <<>>)
    IN  Flatten([k \in 1..Len(lines) |-> <<">", " ">> \o lines[k] \o <<NL>>])

\* The table branch is RenderTable: the records rendered here never hold the
\* Pandoc alignment marker, so the Pandoc fallback is never entered.
RenderBlockElementToMarkdown(element_type, content, level, encoding, attributes) ==
    IF element_type \in {"frontmatter", "metadata"}
    THEN <<"-", "-", "-", NL>> \o content \o <<NL, "-", "-", "-", NL, NL>>
    ELSE IF element_type = "heading"
    THEN Repeat("#", HeadingLevel(level, attributes)) \o <<" ">> \o content \o <<NL, NL>>
    ELSE IF element_type = "paragraph" THEN content \o <<NL, NL>>
    ELSE IF element_type = "code"
    THEN <<BACKTICK, BACKTICK, BACKTICK>> \o GetAttribute(attributes, "language") \o <<NL>>
         \o content \o <<NL, BACKTICK, BACKTICK, BACKTICK, NL, NL>>
    ELSE IF element_type = "blockquote" THEN QuoteLines(content) \o <<NL>>
    ELSE IF element_type = "list"
    THEN LET start_str == GetAttribute(attributes, "start")
         IN  RenderList(content, encoding,
                        GetAttribute(attributes, "ordered") = <<"t", "r", "u", "e">>,
                        IF start_str # <<>> /\ StdStoi(start_str).ok
                        THEN StdStoi(start_str).value ELSE 1)
    ELSE IF element_type = "table" THEN RenderTable(content, encoding)
    ELSE IF element_type = "hr" THEN <<"-", "-", "-", NL, NL>>
    ELSE IF element_type = "list_item"
    THEN (IF /\ GetAttribute(attributes, "ordered") = <<"t", "r", "u", "e">>
             /\ GetAttribute(attributes, "item_number") # <<>>
          THEN GetAttribute(attributes, "item_number") \o <<".", " ">> \o content \o <<NL>>
          ELSE <<"-", " ">> \o content \o <<NL>>)
    ELSE IF element_type = "image"
    THEN LET alt == IF GetAttribute(attributes, "alt") = <<>> /\ content # <<>>
                    THEN content ELSE GetAttribute(attributes, "alt")
         IN  <<"!", "[">> \o alt \o <<"]", "(">> \o GetAttribute(attributes, "src")
             \o TitleClause(GetAttribute(attributes, "title")) \o <<")", NL, NL>>
    ELSE content \o <<NL, NL>>

\* a dispatcher that sends every kind to the block renderer
RenderEveryKindAsBlock(kind, element_type, content, level, encoding, attributes) ==
    RenderBlockElementToMarkdown(element_type, content, level, encoding, attributes)

\* the element types rendered as blocks when the kind is neither block nor inline
GuessedBlockTypes ==
    {"heading", "paragraph", "blockquote", "list", "table", "hr", "metadata",
     "frontmatter", "code", "image"}

RenderDuckBlockToMarkdown(kind, element_type, content, level, encoding, attributes) ==
    IF kind = "block"
    THEN RenderBlockElementToMarkdown(element_type, content, level, encoding, attributes)
    ELSE IF kind = "inline"
    THEN RenderInlineElementToMarkdown(element_type, content, attributes)
    ELSE IF element_type \in GuessedBlockTypes
    THEN RenderBlockElementToMarkdown(element_type, content, level, encoding, attributes)
    ELSE RenderInlineElementToMarkdown(element_type, content, attributes)

----------------------------------------------------------------------------
\* RenderDuckBlocksToMarkdown

\* a list child: a duck_block struct, a NULL, or a struct with fewer than
\* seven fields
DuckBlock(kind, element_type, content, level, encoding, attributes) ==
    [is_null |-> FALSE, size |-> 7, kind |-> kind, element_type |-> element_type,
     content |-> content, level |-> level, encoding |-> encoding,
     attributes |-> attributes]

NullBlock == [DuckBlock("", "", <<>>, 0, "text", <<>>) EXCEPT !.is_null = TRUE]

ShortBlock == [DuckBlock("", "", <<>>, 0, "text", <<>>) EXCEPT !.size = 3]

RenderOf(b) ==
    RenderDuckBlockToMarkdown(b.kind, b.element_type, b.content, b.level, b.encoding,
                              b.attributes)

\* blocks_value is NULL (or not a list): return ""
RenderNullList ==
    /\ r_pc = "start"
    /\ r_blocks.is_null
    /\ result' = <<>>
    /\ r_pc' = "done"
    /\ UNCHANGED <<r_blocks, r_i, last_was_inline, r_parts>>
    /\ UNCHANGED <<secVars, blkVars, listVars, tblVars, dbsVars, pdcVars, genVars, bcVars, cpVars, rdVars>>

\* a NULL child or a struct with fewer than seven fields: continue
RenderSkipRecord ==
    /\ r_pc = "start"
    /\ ~r_blocks.is_null
    /\ r_i < Len(r_blocks.children)
    /\ LET b == r_blocks.children[r_i + 1]
       IN  /\ b.is_null \/ b.size < 7
           /\ r_parts' = Append(r_parts, [skipped |-> TRUE, sep |-> <<>>, text |-> <<>>])
    /\ r_i' = r_i + 1
    /\ UNCHANGED <<r_blocks, result, last_was_inline, r_pc>>
    /\ UNCHANGED <<secVars, blkVars, listVars, tblVars, dbsVars, pdcVars, genVars, bcVars, cpVars, rdVars>>

\* one record: the paragraph break on an inline-to-block transition, then the
\* record's rendering
RenderRecord ==
    /\ r_pc = "start"
    /\ ~r_blocks.is_null
    /\ r_i < Len(r_blocks.children)
    /\ LET b == r_blocks.children[r_i + 1]
           is_inline == b.kind = "inline"
           sep == IF last_was_inline /\ ~is_inline THEN <<NL, NL>> ELSE <<>>
       IN  /\ ~(b.is_null \/ b.size < 7)
           /\ result' = result \o sep \o RenderOf(b)
           /\ last_was_inline' = is_inline
           /\ r_parts' = Append(r_parts, [skipped |-> FALSE, sep |-> sep, text |-> RenderOf(b)])
    /\ r_i' = r_i + 1
    /\ UNCHANGED <<r_blocks, r_pc>>
    /\ UNCHANGED <<secVars, blkVars, listVars, tblVars, dbsVars, pdcVars, genVars, bcVars, cpVars, rdVars>>

\* return result;
RenderReturn ==
    /\ r_pc = "start"
    /\ ~r_blocks.is_null
    /\ r_i = Len(r_blocks.children)
    /\ r_pc' = "done"
    /\ UNCHANGED <<r_blocks, r_i, result, last_was_inline, r_parts>>
    /\ UNCHANGED <<secVars, blkVars, listVars, tblVars, dbsVars, pdcVars, genVars, bcVars, cpVars, rdVars>>

RenderDuckBlocksNext ==
    \/ RenderNullList
    \/ RenderSkipRecord
    \/ RenderRecord
    \/ RenderReturn

\* the state of RenderDuckBlocksToMarkdown on entry
EnterRender ==
    /\ r_i = 0 /\ result = <<>> /\ last_was_inline = FALSE /\ r_parts = <<>>
    /\ r_pc = "start"

NullList == [is_null |-> TRUE, children |-> <<>>]

BlockList(children) == [is_null |-> FALSE, children |-> children]

----------------------------------------------------------------------------
\* Rendering list and table records whose content the encoder did not write

MaxMalformedLen == 4

MalformedAlphabet == {"[", "]", "a", QUOTE, ","}

JsonAttrs == {<<>>, [ordered |-> <<"t", "r", "u", "e">>]}

\* "{" + "\"headers\": [" : the start of a table content
TableContentPrefix == <<"{">> \o HeadersKey \o <<" ", "[">>

MalformedBlocks ==
    {DuckBlock("block", "list", c, 1, "json", a) :
        c \in SeqsUpTo(MalformedAlphabet, MaxMalformedLen), a \in JsonAttrs}
    \cup {DuckBlock("block", "table", c, 0, "json", <<>>) :
            c \in SeqsUpTo(MalformedAlphabet, MaxMalformedLen - 1)}
    \cup {DuckBlock("block", "table", TableContentPrefix \o c, 0, "json", <<>>) :
            c \in SeqsUpTo(MalformedAlphabet, MaxMalformedLen - 1)}

InitMalformed ==
    /\ r_blocks \in {NullList}
                    \cup {BlockList(<<b>>) : b \in MalformedBlocks}
                    \cup {BlockList(<<s, b>>) : s \in {NullBlock, ShortBlock},
                                                b \in MalformedBlocks}
    /\ EnterRender
    /\ IdleSections /\ IdleBlocks /\ IdleList /\ IdleTable /\ IdleToSections /\ IdlePandoc /\ IdleGenerate /\ IdleBreadcrumb /\ IdleCopy /\ IdleReader

SpecMalformed == InitMalformed /\ [][RenderDuckBlocksNext]_vars

\* the decoder finds nothing in the content of list or table record b
DecodesEmpty(b) ==
    IF b.element_type = "list" THEN ParseJsonListItems(b.content) = <<>>
    ELSE /\ ParseJsonTable(b.content).headers = <<>>
         /\ ParseJsonTable(b.content).rows = <<>>

\* C12: a list or table record with encoding "json" in whose content the
\* decoder finds no item, header or row is rendered as the raw content
\* followed by a blank line.
C12_MalformedRendersRawContent ==
    \A k \in 1..Len(r_parts) :
        LET b == r_blocks.children[k]
        IN  (/\ ~r_parts[k].skipped
             /\ b.element_type \in {"list", "table"}
             /\ b.encoding = "json"
             /\ DecodesEmpty(b))
            => r_parts[k].text = b.content \o <<NL, NL>>

----------------------------------------------------------------------------
\* Rendering a sequence of records of mixed kinds

MaxRenderBlocks == 3

SequenceBlocks ==
    {DuckBlock("block", "paragraph", <<"p">>, 0, "text", <<>>),
     DuckBlock("block", "hr", <<>>, 0, "text", <<>>),
     DuckBlock("inline", "text", <<"t">>, 0, "text", <<>>),
     DuckBlock("inline", "bold", <<"b">>, 0, "text", <<>>),
     DuckBlock("", "text", <<"u">>, 0, "text", <<>>),
     DuckBlock("", "paragraph", <<"q">>, 0, "text", <<>>),
     NullBlock,
     ShortBlock}

InitSequence ==
    /\ r_blocks \in {NullList}
                    \cup {BlockList(s) : s \in SeqsUpTo(SequenceBlocks, MaxRenderBlocks)}
    /\ EnterRender
    /\ IdleSections /\ IdleBlocks /\ IdleList /\ IdleTable /\ IdleToSections /\ IdlePandoc /\ IdleGenerate /\ IdleBreadcrumb /\ IdleCopy /\ IdleReader

SpecSequence == InitSequence /\ [][RenderDuckBlocksNext]_vars

\* the records among the first n that were rendered (neither NULL nor short)
Rendered(n) == {j \in 1..n : ~r_parts[j].skipped}

\* the record rendered last before record k, 0 when there is none
PreviousRendered(k) ==
    IF Rendered(k - 1) = {} THEN 0 ELSE SetMax(Rendered(k - 1))

\* C13: the result is the concatenation, in list order, of the renderings of
\* the records that are neither NULL nor short, with one blank-line separator
\* before a record exactly when the record rendered last before it has kind
\* "inline" and the record itself has kind "block".
C13_SeparatorOnlyFromInlineToBlock ==
    /\ result = Flatten([k \in 1..Len(r_parts) |-> r_parts[k].sep \o r_parts[k].text])
    /\ \A k \in 1..Len(r_parts) :
          /\ r_parts[k].skipped => r_parts[k].sep = <<>> /\ r_parts[k].text = <<>>
          /\ ~r_parts[k].skipped =>
                /\ r_parts[k].text = RenderOf(r_blocks.children[k])
                /\ r_parts[k].sep =
                      IF /\ PreviousRendered(k) # 0
                         /\ r_blocks.children[PreviousRendered(k)].kind = "inline"
                         /\ r_blocks.children[k].kind = "block"
                      THEN <<NL, NL>> ELSE <<>>

----------------------------------------------------------------------------
\* Rendering one record of every element type

BlockElementTypes ==
    {"frontmatter", "metadata", "heading", "paragraph", "code", "blockquote", "list",
     "table", "hr", "list_item", "image", "raw", "html", "md:html_block", "unknown"}

InlineElementTypes ==
    {"link", "image", "bold", "strong", "italic", "emphasis", "em", "code", "text",
     "space", "softbreak", "linebreak", "br", "strikethrough", "del", "superscript",
     "sup", "subscript", "sub", "underline", "smallcaps", "math", "raw", "quoted",
     "cite", "note", "span", "unknown"}

KindContents == {<<>>, <<"x">>, <<"x", NL, "y">>, <<"[", "x", "]">>, <<"[", QUOTE, "x", QUOTE, "]">>}

KindAttributes ==
    {<<>>,
     [ordered |-> <<"t", "r", "u", "e">>, item_number |-> <<"2">>, start |-> <<"3">>],
     [title |-> <<"T">>, src |-> <<"s">>, href |-> <<"h">>, key |-> <<"k">>,
      display |-> <<"b", "l", "o", "c", "k">>, quote_type |-> <<"s", "i", "n", "g", "l", "e">>,
      language |-> <<"c">>, alt |-> <<"a">>]}

KindBlocks ==
    {DuckBlock("block", e, c, l, enc, a) :
        e \in BlockElementTypes, c \in KindContents, l \in {0, 2},
        enc \in {"text", "json"}, a \in KindAttributes}
    \cup {DuckBlock("inline", e, c, 0, "text", a) :
            e \in InlineElementTypes, c \in KindContents, a \in KindAttributes}

InitKinds ==
    /\ r_blocks \in {NullList}
                    \cup {BlockList(<<b>>) : b \in KindBlocks}
                    \cup {BlockList(<<NullBlock, ShortBlock>>)}
    /\ EnterRender
    /\ IdleSections /\ IdleBlocks /\ IdleList /\ IdleTable /\ IdleToSections /\ IdlePandoc /\ IdleGenerate /\ IdleBreadcrumb /\ IdleCopy /\ IdleReader

SpecKinds == InitKinds /\ [][RenderDuckBlocksNext]_vars

\* C14: the rendering of every record of kind "block" ends with a blank-line
\* separator (two newlines), and the rendering of a record of kind "inline"
\* is its inline markup with no separator after it.
C14_BlockEndsWithBlankLine ==
    \A k \in 1..Len(r_parts) :
        LET b == r_blocks.children[k]
        IN  /\ (~r_parts[k].skipped /\ b.kind = "block")
                  => EndsWith(r_parts[k].text, <<NL, NL>>)
            /\ (~r_parts[k].skipped /\ b.kind = "inline")
                  => r_parts[k].text =
                        RenderInlineElementToMarkdown(b.element_type, b.content, b.attributes)

----------------------------------------------------------------------------
\* duck_blocks_to_sections

\* the heading branch: the heading_level attribute takes priority over the
\* level field; the result is clamped to 1..6
SectionHeadingLevel(level, attributes) ==
    LET attr == GetAttribute(attributes, "heading_level")
        heading_level == IF attr # <<>>
                         THEN (IF StdStoi(attr).ok THEN StdStoi(attr).value ELSE 1)
                         ELSE IF level > 0 /\ level <= 6 THEN level
                         ELSE 1
    IN  IF heading_level < 1 THEN 1
        ELSE IF heading_level > 6 THEN 6
        ELSE heading_level

\* current_section_id = "frontmatter"
FrontmatterId == <<"f", "r", "o", "n", "t", "m", "a", "t", "t", "e", "r">>

\* section_path_parts joined by " > "
RECURSIVE JoinPathParts(_)
JoinPathParts(parts) ==
    IF parts = <<>> THEN <<>>
    ELSE IF Len(parts) = 1 THEN parts[1]
    ELSE JoinPathParts(SubSeq(parts, 1, Len(parts) - 1)) \o <<" ", ">", " ">>
         \o parts[Len(parts)]

\* a flush that pushes titled sections only
FlushTitledOnly(secs, title, level, section_id, content, parts) ==
    IF title # <<>>
    THEN Append(secs, [section_id |-> section_id,
                       section_path |-> JoinPathParts(parts),
                       level |-> level,
                       title |-> title,
                       content |-> content])
    ELSE secs

\* flush_section: the sections vector after the current section is pushed,
\* which happens unless both its title and its content are empty
FlushSection(secs, title, level, section_id, content, parts) ==
    IF title # <<>> \/ content # <<>>
    THEN Append(secs, [section_id |-> section_id,
                       section_path |-> JoinPathParts(parts),
                       level |-> level,
                       title |-> title,
                       content |-> content])
    ELSE secs

\* while (section_path_parts.size() >= heading_level) pop_back();
PopPathParts(parts, heading_level) ==
    IF Len(parts) >= heading_level THEN SubSeq(parts, 1, heading_level - 1) ELSE parts

\* ::tolower on every character, then ' ' replaced by '-'
TitleToId(content) ==
    [k \in 1..Len(content) |->
        IF ToLowerChar(content[k]) = " " THEN "-" ELSE ToLowerChar(content[k])]

\* blocks_value is NULL: the result is NULL
SectionsNullList ==
    /\ d_pc = "start"
    /\ d_blocks.is_null
    /\ d_pc' = "null"
    /\ UNCHANGED <<d_blocks, d_i, d_sections, current_title, current_level,
                   current_section_id, current_content, section_path_parts>>
    /\ UNCHANGED <<secVars, blkVars, listVars, tblVars, rndVars, pdcVars, genVars, bcVars, cpVars, rdVars>>

\* a NULL child or a struct with fewer than seven fields: continue
SectionsSkipRecord ==
    /\ d_pc = "start"
    /\ ~d_blocks.is_null
    /\ d_i < Len(d_blocks.children)
    /\ d_blocks.children[d_i + 1].is_null \/ d_blocks.children[d_i + 1].size < 7
    /\ d_i' = d_i + 1
    /\ UNCHANGED <<d_blocks, d_sections, current_title, current_level,
                   current_section_id, current_content, section_path_parts, d_pc>>
    /\ UNCHANGED <<secVars, blkVars, listVars, tblVars, rndVars, pdcVars, genVars, bcVars, cpVars, rdVars>>

\* a heading record: flush the previous section and start a new one
SectionsHeading ==
    /\ d_pc = "start"
    /\ ~d_blocks.is_null
    /\ d_i < Len(d_blocks.children)
    /\ LET b == d_blocks.children[d_i + 1]
           heading_level == SectionHeadingLevel(b.level, b.attributes)
           id == GetAttribute(b.attributes, "id")
       IN  /\ ~(b.is_null \/ b.size < 7)
           /\ b.element_type = "heading"
           /\ d_sections' = FlushSection(d_sections, current_title, current_level,
                                         current_section_id, current_content,
                                         section_path_parts)
           /\ section_path_parts' =
                 Append(PopPathParts(section_path_parts, heading_level), b.content)
           /\ current_title' = b.content
           /\ current_level' = heading_level
           /\ current_section_id' = IF id = <<>> THEN TitleToId(b.content) ELSE id
           /\ current_content' = <<>>
    /\ d_i' = d_i + 1
    /\ UNCHANGED <<d_blocks, d_pc>>
    /\ UNCHANGED <<secVars, blkVars, listVars, tblVars, rndVars, pdcVars, genVars, bcVars, cpVars, rdVars>>

\* a metadata or frontmatter record: flush the previous section, then flush a
\* level-0 section holding the record's content
SectionsFrontmatter ==
    /\ d_pc = "start"
    /\ ~d_blocks.is_null
    /\ d_i < Len(d_blocks.children)
    /\ LET b == d_blocks.children[d_i + 1]
           flushed == FlushSection(d_sections, current_title, current_level,
                                   current_section_id, current_content,
                                   section_path_parts)
       IN  /\ ~(b.is_null \/ b.size < 7)
           /\ b.element_type \in {"metadata", "frontmatter"}
           /\ d_sections' = FlushSection(flushed, <<>>, 0, FrontmatterId, b.content,
                                         section_path_parts)
    /\ current_title' = <<>>
    /\ current_level' = 0
    /\ current_section_id' = FrontmatterId
    /\ current_content' = <<>>
    /\ d_i' = d_i + 1
    /\ UNCHANGED <<d_blocks, section_path_parts, d_pc>>
    /\ UNCHANGED <<secVars, blkVars, listVars, tblVars, rndVars, pdcVars, genVars, bcVars, cpVars, rdVars>>

\* any other record: its rendering is appended to the current section
SectionsAppend ==
    /\ d_pc = "start"
    /\ ~d_blocks.is_null
    /\ d_i < Len(d_blocks.children)
    /\ LET b == d_blocks.children[d_i + 1]
       IN  /\ ~(b.is_null \/ b.size < 7)
           /\ b.element_type \notin {"heading", "metadata", "frontmatter"}
           /\ current_content' = current_content \o RenderOf(b)
    /\ d_i' = d_i + 1
    /\ UNCHANGED <<d_blocks, d_sections, current_title, current_level,
                   current_section_id, section_path_parts, d_pc>>
    /\ UNCHANGED <<secVars, blkVars, listVars, tblVars, rndVars, pdcVars, genVars, bcVars, cpVars, rdVars>>

\* after the loop: flush the final section and return the list
SectionsReturn ==
    /\ d_pc = "start"
    /\ ~d_blocks.is_null
    /\ d_i = Len(d_blocks.children)
    /\ d_sections' = FlushSection(d_sections, current_title, current_level,
                                  current_section_id, current_content,
                                  section_path_parts)
    /\ d_pc' = "done"
    /\ UNCHANGED <<d_blocks, d_i, current_title, current_level, current_section_id,
                   current_content, section_path_parts>>
    /\ UNCHANGED <<secVars, blkVars, listVars, tblVars, rndVars, pdcVars, genVars, bcVars, cpVars, rdVars>>

DuckBlocksToSectionsNext ==
    \/ SectionsNullList
    \/ SectionsSkipRecord
    \/ SectionsHeading
    \/ SectionsFrontmatter
    \/ SectionsAppend
    \/ SectionsReturn

\* the state of duck_blocks_to_sections on entry
EnterToSections ==
    /\ d_i = 0 /\ d_sections = <<>>
    /\ current_title = <<>> /\ current_level = 0 /\ current_section_id = <<>>
    /\ current_content = <<>> /\ section_path_parts = <<>> /\ d_pc = "start"

----------------------------------------------------------------------------
\* Heading records: every raw level with every heading_level attribute

RawLevels == {-1, 0, 1, 3, 6, 7}

HeadingLevelValues ==
    {<<>>, <<"0">>, <<"1">>, <<"4">>, <<"6">>, <<"7">>, <<"-", "3">>, <<"+", "2">>,
     <<" ", "5">>, <<"3", "x">>, <<"x">>, <<"0", "0", "6">>,
     <<"2", "1", "4", "7", "4", "8", "3", "6", "4", "8">>}

HeadingAttributes == {<<>>} \cup {[heading_level |-> v] : v \in HeadingLevelValues}

HeadingBlocks ==
    {DuckBlock("block", "heading", <<"x">>, l, "text", a) :
        l \in RawLevels, a \in HeadingAttributes}

InitHeading ==
    /\ r_blocks \in {NullList}
                    \cup {BlockList(<<b>>) : b \in HeadingBlocks}
                    \cup {BlockList(<<s, b>>) : s \in {NullBlock, ShortBlock},
                                                b \in HeadingBlocks}
    /\ EnterRender
    /\ IdleSections /\ IdleBlocks /\ IdleList /\ IdleTable /\ IdleToSections /\ IdlePandoc /\ IdleGenerate /\ IdleBreadcrumb /\ IdleCopy /\ IdleReader

SpecHeading == InitHeading /\ [][RenderDuckBlocksNext]_vars

HasHeadingLevel(b) == "heading_level" \in DOMAIN b.attributes

\* the heading_level attribute of b parses as an integer in 1..6
ParsesInRange(b) ==
    /\ HasHeadingLevel(b)
    /\ StdStoi(b.attributes["heading_level"]).ok
    /\ StdStoi(b.attributes["heading_level"]).value \in 1..6

\* n "#" characters, a space, the content and a blank line
AtxHeading(n, content) == Repeat("#", n) \o <<" ">> \o content \o <<NL, NL>>

\* C15: a rendered heading is 1 to 6 "#" characters, a space, the content and
\* a blank line, for every raw level and every heading_level attribute value;
\* the number of "#" is the attribute's integer when it parses as an integer
\* in 1..6, and the raw level when the attribute is absent and the raw level
\* is in 1..6.
C15_HeadingHasOneToSixHashes ==
    \A k \in 1..Len(r_parts) :
        LET b == r_blocks.children[k]
        IN  (~r_parts[k].skipped /\ b.element_type = "heading") =>
               \E n \in 1..6 :
                  /\ r_parts[k].text = AtxHeading(n, b.content)
                  /\ ParsesInRange(b) => n = StdStoi(b.attributes["heading_level"]).value
                  /\ (~HasHeadingLevel(b) /\ b.level \in 1..6) => n = b.level

\* a heading with raw level 7 and heading_level "006" was rendered with six "#"
C15_RenderedOverriddenHeading ==
    /\ r_pc = "done"
    /\ Len(r_parts) = 1
    /\ r_blocks.children[1].level = 7
    /\ HasHeadingLevel(r_blocks.children[1])
    /\ r_blocks.children[1].attributes["heading_level"] = <<"0", "0", "6">>
    /\ result = <<"#", "#", "#", "#", "#", "#", " ", "x", NL, NL>>

----------------------------------------------------------------------------
\* Heading levels in both consumers: the same record list is rendered by
\* RenderDuckBlocksToMarkdown and cut into sections by duck_blocks_to_sections

LevelBlocks ==
    HeadingBlocks
    \cup {DuckBlock("block", "paragraph", <<"p">>, 0, "text", <<>>),
          DuckBlock("block", "frontmatter", <<"f">>, 0, "text", <<>>),
          NullBlock}

InitHeadingLevel ==
    /\ r_blocks \in {NullList}
                    \cup {BlockList(<<b>>) : b \in LevelBlocks}
                    \cup {BlockList(<<b, c>>) :
                            b \in HeadingBlocks, c \in LevelBlocks \ HeadingBlocks}
    /\ d_blocks = r_blocks
    /\ EnterRender
    /\ EnterToSections
    /\ IdleSections /\ IdleBlocks /\ IdleList /\ IdleTable /\ IdlePandoc /\ IdleGenerate /\ IdleBreadcrumb /\ IdleCopy /\ IdleReader

HeadingLevelNext ==
    \/ RenderNullList
    \/ RenderSkipRecord
    \/ RenderRecord
    \/ RenderReturn
    \/ SectionsNullList
    \/ SectionsSkipRecord
    \/ SectionsHeading
    \/ SectionsFrontmatter
    \/ SectionsAppend
    \/ SectionsReturn

SpecHeadingLevel == InitHeadingLevel /\ [][HeadingLevelNext]_vars

\* b carries a heading_level attribute that is out of 1..6 or is no integer
BadHeadingLevel(b) == HasHeadingLevel(b) /\ ~ParsesInRange(b)

\* C16: a heading record whose heading_level attribute is out of the range
\* 1..6 or does not parse as an integer is rendered with one "#", and the
\* section duck_blocks_to_sections starts for it has level 1.
C16_BadHeadingLevelFallsBackToOne ==
    /\ \A k \in 1..Len(r_parts) :
          LET b == r_blocks.children[k]
          IN  (~r_parts[k].skipped /\ b.element_type = "heading" /\ BadHeadingLevel(b))
                 => r_parts[k].text = AtxHeading(1, b.content)
    /\ (/\ d_i = 1
        /\ ~d_blocks.is_null
        /\ ~d_blocks.children[1].is_null
        /\ d_blocks.children[1].element_type = "heading"
        /\ BadHeadingLevel(d_blocks.children[1]))
          => current_level = 1

----------------------------------------------------------------------------
\* duck_blocks_to_sections on lists of frontmatter, heading and body records

MaxSectionBlocks == 3

SectionBlocks ==
    {DuckBlock("block", "frontmatter", <<"f">>, 0, "text", <<>>),
     DuckBlock("block", "metadata", <<>>, 0, "text", <<>>),
     DuckBlock("block", "heading", <<"H", " ", "h">>, 1, "text", <<>>),
     DuckBlock("block", "heading", <<"G">>, 2, "text", [id |-> <<"g">>]),
     DuckBlock("block", "paragraph", <<"p">>, 0, "text", <<>>),
     NullBlock,
     ShortBlock}

InitToSections ==
    /\ d_blocks \in {NullList}
                    \cup {BlockList(s) : s \in SeqsUpTo(SectionBlocks, MaxSectionBlocks)}
    /\ EnterToSections
    /\ IdleSections /\ IdleBlocks /\ IdleList /\ IdleTable /\ IdleRender /\ IdlePandoc /\ IdleGenerate /\ IdleBreadcrumb /\ IdleCopy /\ IdleReader

SpecToSections == InitToSections /\ [][DuckBlocksToSectionsNext]_vars

IsFrontmatterRecord(b) ==
    ~b.is_null /\ b.size >= 7 /\ b.element_type \in {"frontmatter", "metadata"}

\* the positions of the frontmatter and metadata records in the list
FrontmatterRecords ==
    {k \in 1..Len(d_blocks.children) : IsFrontmatterRecord(d_blocks.children[k])}

\* C18: for a list whose first record is its only frontmatter or metadata
\* record (with non-empty content), the first emitted section has level 0, id
\* "frontmatter", an empty title and the record's content, and no other
\* emitted section has id "frontmatter" or level 0.
C18_OneFrontmatterSection ==
    (/\ d_pc = "done"
     /\ FrontmatterRecords = {1}
     /\ d_blocks.children[1].content # <<>>)
        => /\ d_sections # <<>>
           /\ d_sections[1].level = 0
           /\ d_sections[1].section_id = FrontmatterId
           /\ d_sections[1].title = <<>>
           /\ d_sections[1].content = d_blocks.children[1].content
           /\ \A k \in 2..Len(d_sections) :
                 /\ d_sections[k].section_id # FrontmatterId
                 /\ d_sections[k].level # 0

----------------------------------------------------------------------------
\* Decoding escape sequences: list and table records whose one quoted string
\* is a run of escape sequences and plain characters

MaxEscapes == 2

EscapeTokens ==
    {<<BSL, "n">>, <<BSL, "t">>, <<BSL, "r">>, <<BSL, QUOTE>>, <<BSL, BSL>>, <<"a">>}

EscapeBodies == SeqsUpTo(EscapeTokens, MaxEscapes)

\* "[\"" + body + "\"]"
EscapedListContent(body) == <<"[", QUOTE>> \o Flatten(body) \o <<QUOTE, "]">>

\* "{\"headers\": [\"" + body + "\"], \"rows\": [[\"" + body + "\"]]}"
EscapedTableContent(body) ==
    <<"{">> \o HeadersKey \o <<":", " ", "[", QUOTE>> \o Flatten(body) \o <<QUOTE, "]">>
    \o <<",", " ">> \o RowsKey \o <<":", " ", "[", "[", QUOTE>> \o Flatten(body)
    \o <<QUOTE, "]", "]", "}">>

InitEscapes ==
    /\ \E body \in EscapeBodies :
          /\ l_block = [block_type |-> "list", content |-> EscapedListContent(body),
                        level |-> 1, encoding |-> "json", attributes |-> <<>>,
                        block_order |-> 1]
          /\ t_content = EscapedTableContent(body)
    /\ l_list = <<>> /\ l_parsed = <<>> /\ l_out = <<>> /\ l_pc = "encoded"
    /\ t_rows = <<>> /\ t_headers = <<>> /\ t_body = <<>> /\ t_out = <<>>
    /\ t_pc = "encoded"
    /\ IdleSections /\ IdleBlocks /\ IdleRender /\ IdleToSections /\ IdlePandoc /\ IdleGenerate /\ IdleBreadcrumb /\ IdleCopy /\ IdleReader

EscapesNext ==
    \/ DecodeListItems
    \/ RenderListBlock
    \/ DecodeTable
    \/ RenderTableBlock

SpecEscapes == InitEscapes /\ [][EscapesNext]_vars

\* the character an escape sequence stands for
EscapedChar(token) ==
    IF token = <<BSL, "n">> THEN NL
    ELSE IF token = <<BSL, "t">> THEN TAB
    ELSE IF token = <<BSL, "r">> THEN CR
    ELSE token[Len(token)]

Unescaped(body) == [k \in 1..Len(body) |-> EscapedChar(body[k])]

\* C20: ParseJsonListItems and ParseJsonTable both decode a quoted string of
\* escape sequences to the characters they stand for: \n, \t, \r, \" and \\
\* give newline, tab, carriage return, double quote and backslash, and an
\* escaped quote does not end the string.
C20_DecodersMapEscapes ==
    \A body \in EscapeBodies :
        /\ (l_pc \in {"decoded", "rendered"} /\ l_block.content = EscapedListContent(body))
              => l_parsed = <<Unescaped(body)>>
        /\ (t_pc \in {"decoded", "rendered"} /\ t_content = EscapedTableContent(body))
              => /\ t_headers = <<Unescaped(body)>>
                 /\ t_body = <<(<<Unescaped(body)>>)>>

\* the list decoder alone
C20_ListDecoderMapsEscapes ==
    \A body \in EscapeBodies :
        (l_pc \in {"decoded", "rendered"} /\ l_block.content = EscapedListContent(body))
            => l_parsed = <<Unescaped(body)>>

----------------------------------------------------------------------------
\* ExtractPandocText

\* s.find(pat, from): 0-based index of the first occurrence of pat at or after
\* from, -1 for npos
FindStrFrom(s, pat, from) ==
    LET hits == {k \in from..(Len(s) - Len(pat)) : SubSeq(s, k + 1, k + Len(pat)) = pat}
    IN  IF hits = {} THEN -1 ELSE CHOOSE k \in hits : \A m \in hits : k <= m

\* extract_quoted_string: the loop that looks for the closing quote
RECURSIVE QuoteEnd(_, _, _)
QuoteEnd(content, end, escape) ==
    IF end >= Len(content) THEN end
    ELSE IF escape THEN QuoteEnd(content, end + 1, FALSE)
    ELSE IF content[end + 1] = BSL THEN QuoteEnd(content, end + 1, TRUE)
    ELSE IF content[end + 1] = QUOTE THEN end
    ELSE QuoteEnd(content, end + 1, FALSE)

\* extract_quoted_string: the unescape loop
RECURSIVE PandocUnescape(_)
PandocUnescape(text) ==
    IF text = <<>> THEN <<>>
    ELSE IF text[1] = BSL /\ Len(text) > 1
    THEN (IF text[2] = "n" THEN <<NL>> \o PandocUnescape(SubSeq(text, 3, Len(text)))
          ELSE IF text[2] = "t" THEN <<TAB>> \o PandocUnescape(SubSeq(text, 3, Len(text)))
          ELSE IF text[2] = QUOTE THEN <<QUOTE>> \o PandocUnescape(SubSeq(text, 3, Len(text)))
          ELSE IF text[2] = BSL THEN <<BSL>> \o PandocUnescape(SubSeq(text, 3, Len(text)))
          ELSE <<BSL>> \o PandocUnescape(Tail(text)))
    ELSE <<text[1]>> \o PandocUnescape(Tail(text))

\* extract_quoted_string(start): the unescaped text and the position after
\* the closing quote
ExtractQuotedString(content, start) ==
    IF start >= Len(content) \/ content[start + 1] # QUOTE
    THEN [text |-> <<>>, end_pos |-> start]
    ELSE LET end == QuoteEnd(content, start + 1, FALSE)
         IN  [text |-> PandocUnescape(Substr(content, start + 1, end - start - 1)),
              end_pos |-> end + 1]

\* find_bracket_end: what one character does to depth, in_string and escape;
\* closed is set when a "]" outside a string brings depth to 0
BracketStepNoStrings(st, c) ==
    IF c = "[" THEN [st EXCEPT !.depth = st.depth + 1]
    ELSE IF c = "]" THEN [st EXCEPT !.depth = st.depth - 1, !.closed = (st.depth - 1 = 0)]
    ELSE st

BracketStep(st, c) ==
    IF st.escape THEN [st EXCEPT !.escape = FALSE]
    ELSE IF c = BSL THEN [st EXCEPT !.escape = TRUE]
    ELSE IF c = QUOTE THEN [st EXCEPT !.in_string = ~st.in_string]
    ELSE IF st.in_string THEN st
    ELSE IF c = "[" THEN [st EXCEPT !.depth = st.depth + 1]
    ELSE IF c = "]" THEN [st EXCEPT !.depth = st.depth - 1, !.closed = (st.depth - 1 = 0)]
    ELSE st

\* find_bracket_end: one pass of the for loop at position k; stop is set when
\* the loop returns, at is the returned position (-1 for npos)
BracketPass(content, k, st) ==
    IF st.stop THEN st
    ELSE IF k >= Len(content) THEN [st EXCEPT !.stop = TRUE, !.at = -1]
    ELSE IF BracketStep(st, content[k + 1]).closed
    THEN [st EXCEPT !.stop = TRUE, !.at = k]
    ELSE BracketStep(st, content[k + 1])

\* four passes of the for loop
BracketPasses(content, k, st) ==
    BracketPass(content, k + 3,
        BracketPass(content, k + 2,
            BracketPass(content, k + 1,
                BracketPass(content, k, st))))

\* find_bracket_end: the for loop from position k on, sixteen passes at a time
RECURSIVE BracketScan(_, _, _)
BracketScan(content, k, st) ==
    LET after == BracketPasses(content, k + 12,
                     BracketPasses(content, k + 8,
                         BracketPasses(content, k + 4,
                             BracketPasses(content, k, st))))
    IN  IF after.stop THEN after.at ELSE BracketScan(content, k + 16, after)

\* find_bracket_end(start): the position of the matching "]", -1 for npos
FindBracketEnd(content, start) ==
    IF start >= Len(content) \/ content[start + 1] # "[" THEN -1
    ELSE BracketScan(content, start,
                     [depth |-> 0, in_string |-> FALSE, escape |-> FALSE, closed |-> FALSE,
                      stop |-> FALSE, at |-> -1])

\* the type markers, in the order the code compares them
TypeMarkers ==
    <<<<QUOTE, "t", QUOTE, ":", QUOTE, "S", "t", "r", QUOTE>>,
       <<QUOTE, "t", QUOTE, ":", QUOTE, "S", "p", "a", "c", "e", QUOTE>>,
       <<QUOTE, "t", QUOTE, ":", QUOTE, "S", "o", "f", "t", "B", "r", "e", "a", "k", QUOTE>>,
       <<QUOTE, "t", QUOTE, ":", QUOTE, "S", "t", "r", "o", "n", "g", QUOTE>>,
       <<QUOTE, "t", QUOTE, ":", QUOTE, "E", "m", "p", "h", QUOTE>>,
       <<QUOTE, "t", QUOTE, ":", QUOTE, "C", "o", "d", "e", QUOTE>>,
       <<QUOTE, "t", QUOTE, ":", QUOTE, "L", "i", "n", "k", QUOTE>>>>

CKey == <<QUOTE, "c", QUOTE, ":">>

\* the nearest marker at or after pos: match_type (0 when none) and next_pos;
\* an earlier marker type wins only with a strictly smaller position
RECURSIVE NearestMarker(_, _, _, _, _)
NearestMarker(content, pos, m, match_type, next_pos) ==
    IF m > Len(TypeMarkers) THEN [match_type |-> match_type, next_pos |-> next_pos]
    ELSE LET at == FindStrFrom(content, TypeMarkers[m], pos)
         IN  IF at # -1 /\ (next_pos = -1 \/ at < next_pos)
             THEN NearestMarker(content, pos, m + 1, m, at)
             ELSE NearestMarker(content, pos, m + 1, match_type, next_pos)

\* One pass of the while loop from pos on, and all passes after it.  A branch
\* that cannot find what it looks for falls through to pos = next_pos + 10.
RECURSIVE ExtractFrom(_, _, _)
ExtractFrom(content, pos, res) ==
    IF pos >= Len(content) THEN res
    ELSE
    LET near == NearestMarker(content, pos, 1, 0, -1)
        next_pos == near.next_pos
        c_pos == FindStrFrom(content, CKey, next_pos)
        arr_start == IF c_pos = -1 THEN -1 ELSE Find(content, "[", c_pos)
        skip == ExtractFrom(content, next_pos + 10, res)
    IN  IF near.match_type = 0 THEN res
        ELSE IF near.match_type = 1
        THEN LET quote_start == IF c_pos # -1 /\ c_pos < next_pos + 50
                                THEN Find(content, QUOTE, c_pos + 4) ELSE -1
                 q == ExtractQuotedString(content, quote_start)
             IN  IF quote_start # -1 THEN ExtractFrom(content, q.end_pos, res \o q.text)
                 ELSE skip
        ELSE IF near.match_type \in {2, 3}
        THEN ExtractFrom(content, next_pos + 12, res \o <<" ">>)
        ELSE IF near.match_type \in {4, 5}
        THEN LET arr_end == IF arr_start = -1 THEN -1 ELSE FindBracketEnd(content, arr_start)
                 inner == Substr(content, arr_start, arr_end - arr_start + 1)
                 mark == IF near.match_type = 4 THEN <<"*", "*">> ELSE <<"*">>
             IN  IF arr_end # -1
                 THEN ExtractFrom(content, arr_end + 1,
                                  res \o mark \o ExtractFrom(inner, 0, <<>>) \o mark)
                 ELSE skip
        ELSE IF near.match_type = 6
        THEN LET inner_arr == IF arr_start = -1 THEN -1 ELSE Find(content, "[", arr_start + 1)
                 inner_end == IF inner_arr = -1 THEN -1 ELSE FindBracketEnd(content, inner_arr)
                 comma == IF inner_end = -1 THEN -1 ELSE Find(content, ",", inner_end)
                 quote == IF comma = -1 THEN -1 ELSE Find(content, QUOTE, comma)
                 q == ExtractQuotedString(content, quote)
             IN  IF quote # -1
                 THEN ExtractFrom(content, q.end_pos,
                                  res \o <<BACKTICK>> \o q.text \o <<BACKTICK>>)
                 ELSE skip
        ELSE LET attr_arr == IF arr_start = -1 THEN -1 ELSE Find(content, "[", arr_start + 1)
                 attr_end == IF attr_arr = -1 THEN -1 ELSE FindBracketEnd(content, attr_arr)
                 inlines_arr == IF attr_end = -1 THEN -1 ELSE Find(content, "[", attr_end + 1)
                 inlines_end == IF inlines_arr = -1 THEN -1
                                ELSE FindBracketEnd(content, inlines_arr)
                 inlines == Substr(content, inlines_arr, inlines_end - inlines_arr + 1)
                 target_arr == IF inlines_end = -1 THEN -1
                               ELSE Find(content, "[", inlines_end + 1)
                 url_quote == IF target_arr = -1 THEN -1 ELSE Find(content, QUOTE, target_arr)
                 u == ExtractQuotedString(content, url_quote)
                 target_end == FindBracketEnd(content, target_arr)
             IN  IF url_quote # -1
                 THEN ExtractFrom(content,
                                  IF target_end # -1 THEN target_end + 1 ELSE u.end_pos,
                                  res \o <<"[">> \o ExtractFrom(inlines, 0, <<>>)
                                      \o <<"]", "(">> \o u.text \o <<")">>)
                 ELSE skip

ExtractPandocText(content) == ExtractFrom(content, 0, <<>>)

\* one call of ExtractPandocText
ExtractText ==
    /\ p_pc = "start"
    /\ p_out' = ExtractPandocText(p_content)
    /\ p_pc' = "done"
    /\ UNCHANGED <<p_inlines, p_content>>
    /\ UNCHANGED <<secVars, blkVars, listVars, tblVars, rndVars, dbsVars, genVars, bcVars, cpVars, rdVars>>

ExtractPandocTextNext ==
    \/ ExtractText

----------------------------------------------------------------------------
\* Tagged-node fragments: a Strong, Emph or Link node around Str text that
\* may hold brackets, quotes and backslashes, followed by one more Str node

MaxStrLen == 2

StrAlphabet == {"a", "[", "]", QUOTE, BSL}

StrTexts == SeqsUpTo(StrAlphabet, MaxStrLen) \ {<<>>}

\* inline nodes of the tagged-node tree
StrNode(text) == [t |-> "Str", text |-> text, kids |-> <<>>, url |-> <<>>]
SpaceNode == [t |-> "Space", text |-> <<>>, kids |-> <<>>, url |-> <<>>]
WrapNode(kind, kids, url) == [t |-> kind, text |-> <<>>, kids |-> kids, url |-> url]

\* a JSON string literal: quotes and backslashes escaped
JsonString(text) ==
    <<QUOTE>>
    \o Flatten([k \in 1..Len(text) |->
                  IF text[k] \in {QUOTE, BSL} THEN <<BSL, text[k]>> ELSE <<text[k]>>])
    \o <<QUOTE>>

\* {"t":"<Kind>","c":...} for one node, and [node,node,...] for a list
RECURSIVE NodeJson(_), NodesJson(_)
NodeJson(n) ==
    IF n.t = "Str" THEN <<"{", QUOTE, "t", QUOTE, ":", QUOTE, "S", "t", "r", QUOTE, ",", QUOTE, "c", QUOTE, ":">> \o JsonString(n.text) \o <<"}">>
    ELSE IF n.t = "Space" THEN <<"{", QUOTE, "t", QUOTE, ":", QUOTE, "S", "p", "a", "c", "e", QUOTE, "}">>
    ELSE IF n.t = "Strong" THEN <<"{", QUOTE, "t", QUOTE, ":", QUOTE, "S", "t", "r", "o", "n", "g", QUOTE, ",", QUOTE, "c", QUOTE, ":">> \o NodesJson(n.kids) \o <<"}">>
    ELSE IF n.t = "Emph" THEN <<"{", QUOTE, "t", QUOTE, ":", QUOTE, "E", "m", "p", "h", QUOTE, ",", QUOTE, "c", QUOTE, ":">> \o NodesJson(n.kids) \o <<"}">>
    ELSE <<"{", QUOTE, "t", QUOTE, ":", QUOTE, "L", "i", "n", "k", QUOTE, ",", QUOTE, "c", QUOTE, ":", "[", "[", QUOTE, QUOTE, ",", "[", "]", ",", "[", "]", "]", ",">> \o NodesJson(n.kids)
         \o <<",", "[">> \o JsonString(n.url) \o <<",", QUOTE, QUOTE, "]", "]", "}">>
NodesJson(ns) ==
    <<"[">> \o JoinComma([k \in 1..Len(ns) |-> NodeJson(ns[k])]) \o <<"]">>

InnerInlines ==
    {<<StrNode(x)>> : x \in StrTexts}
    \cup {<<StrNode(x), SpaceNode, WrapNode("Emph", <<StrNode(<<"]">>)>>, <<>>)>> :
            x \in {<<"[">>, <<"a", QUOTE>>}}
    \cup {<<WrapNode("Strong", <<StrNode(x)>>, <<>>)>> : x \in {<<"]">>, <<"[", BSL>>}}

PandocInputs ==
    {<<WrapNode(kind, inner, IF kind = "Link" THEN url ELSE <<>>), StrNode(after)>> :
        kind \in {"Strong", "Emph", "Link"}, inner \in InnerInlines,
        url \in {<<"u">>, <<"u", "]">>}, after \in {<<"a">>, <<"]">>}}

InitPandoc ==
    /\ p_inlines \in PandocInputs
    /\ p_content = NodesJson(p_inlines)
    /\ p_out = <<>> /\ p_pc = "start"
    /\ IdleSections /\ IdleBlocks /\ IdleList /\ IdleTable /\ IdleRender /\ IdleToSections /\ IdleGenerate /\ IdleBreadcrumb /\ IdleCopy /\ IdleReader

SpecPandoc == InitPandoc /\ [][ExtractPandocTextNext]_vars

\* the Markdown of a node and of a list of nodes
RECURSIVE InlineMarkdown(_), InlinesMarkdown(_)
InlineMarkdown(n) ==
    IF n.t = "Str" THEN n.text
    ELSE IF n.t = "Space" THEN <<" ">>
    ELSE IF n.t = "Strong" THEN <<"*", "*">> \o InlinesMarkdown(n.kids) \o <<"*", "*">>
    ELSE IF n.t = "Emph" THEN <<"*">> \o InlinesMarkdown(n.kids) \o <<"*">>
    ELSE <<"[">> \o InlinesMarkdown(n.kids) \o <<"]", "(">> \o n.url \o <<")">>
InlinesMarkdown(ns) == Flatten([k \in 1..Len(ns) |-> InlineMarkdown(ns[k])])

\* C21: for a well-formed Strong, Emph or Link fragment ExtractPandocText
\* emits "**" + inner + "**", "*" + inner + "*" or "[" + inner + "](" + url +
\* ")", where inner is the text of exactly the nodes inside the fragment, also
\* when their Str text holds brackets, quotes or backslashes; and the node
\* after the fragment is read next.
C21_WrapperSpansMatchedBrackets ==
    p_pc = "done" => p_out = InlinesMarkdown(p_inlines)

\* a Link whose text is the Str "a]" and whose url is "u]" was extracted,
\* followed by the Str "]"
C21_ExtractedLinkWithBrackets ==
    /\ p_pc = "done"
    /\ p_inlines = <<WrapNode("Link", <<StrNode(<<"a", "]">>)>>, <<"u", "]">>),
                     StrNode(<<"]">>)>>
    /\ p_out = <<"[", "a", "]", "]", "(", "u", "]", ")", "]">>

----------------------------------------------------------------------------
\* GenerateSectionId as a function of (heading_text, id_counts): one call on
\* a heading text and one on the id that call returned

MaxTextLen == 4

TextAlphabet == {"A", "b", "1", "-", "_", " ", "!"}

HeadingTexts == SeqsUpTo(TextAlphabet, MaxTextLen)

\* the map the caller owns: empty, holding the slug of the text once, or
\* holding an unrelated id
CountMaps(text) ==
    {<<>>,
     [k \in {Slug(text)} |-> 1],
     [k \in {<<"z">>} |-> 2],
     [k \in {Slug(text)} |-> 0]}

InitGenerate ==
    /\ g_text \in HeadingTexts
    /\ g_counts_in \in CountMaps(g_text)
    /\ g_counts = g_counts_in
    /\ g_id = <<>> /\ g_prev = <<>> /\ g_n = 0
    /\ IdleSections /\ IdleBlocks /\ IdleList /\ IdleTable /\ IdleRender /\ IdleToSections /\ IdlePandoc /\ IdleBreadcrumb /\ IdleCopy /\ IdleReader

\* id = GenerateSectionId(text, id_counts); the map is passed by const
\* reference.  The second call passes the id the first call returned.
CallGenerateSectionId ==
    /\ g_n < 2
    /\ g_id' = GenerateSectionId(IF g_n = 0 THEN g_text ELSE g_id, g_counts)
    /\ g_prev' = g_id
    /\ g_n' = g_n + 1
    /\ UNCHANGED <<g_text, g_counts_in, g_counts>>
    /\ UNCHANGED <<secVars, blkVars, listVars, tblVars, rndVars, dbsVars, pdcVars, bcVars, cpVars, rdVars>>

GenerateNext ==
    \/ CallGenerateSectionId

SpecGenerate == InitGenerate /\ [][GenerateNext]_vars

\* the text has no prior occurrence in the caller's map
NoPriorOccurrence == CountOf(g_counts_in, Slug(g_text)) = 0

\* C22: GenerateSectionId leaves the count map as it was; when the base id has
\* no prior occurrence the id holds only characters of [a-z0-9_-], no two
\* adjacent hyphens and no leading or trailing hyphen, each character of an
\* input that is already such an id is kept, and the call on the returned id
\* returns it unchanged.
C22_IdIsNormalisedAndStable ==
    /\ g_counts = g_counts_in
    /\ (g_n >= 1 /\ NoPriorOccurrence) =>
          /\ \A k \in 1..Len(g_id) : IsIdChar(g_id[k])
          /\ \A k \in 1..(Len(g_id) - 1) : ~(g_id[k] = "-" /\ g_id[k + 1] = "-")
          /\ g_id # <<>> => (g_id[1] # "-" /\ g_id[Len(g_id)] # "-")
    /\ (g_n = 1 /\ NoPriorOccurrence) =>
          LET lowered == [k \in 1..Len(g_text) |-> ToLowerChar(g_text[k])]
              kept == SelectSeq(lowered, LAMBDA c : IsIdChar(c) /\ c # "-")
          IN  SelectSeq(g_id, LAMBDA c : c # "-") = kept
    /\ (g_n = 2 /\ NoPriorOccurrence) => g_id = g_prev

\* the second call returned: the text "A !" was normalised to "a" by the
\* first call and the second call kept it
C22_SecondCallKeptId ==
    /\ g_n = 2
    /\ g_text = <<"A", " ", "!">>
    /\ g_counts_in = <<>>
    /\ g_id = <<"a">>
    /\ g_prev = <<"a">>

----------------------------------------------------------------------------
\* RenderDuckBlockToMarkdown on every kind, recognised and unrecognised
\* element types, NULL and partial attribute maps

\* the tags RenderBlockElementToMarkdown has a branch for
RecognisedBlockTypes ==
    {"frontmatter", "metadata", "heading", "paragraph", "code", "blockquote", "list",
     "table", "hr", "list_item", "image", "raw", "html", "md:html_block"}

\* the tags RenderInlineElementToMarkdown has a branch for
RecognisedInlineTypes ==
    {"link", "image", "bold", "strong", "italic", "emphasis", "em", "code", "text",
     "space", "softbreak", "linebreak", "br", "strikethrough", "del", "superscript",
     "sup", "subscript", "sub", "underline", "smallcaps", "math", "raw", "quoted",
     "cite", "note", "span"}

\* the keys the two renderers look up
AttributeKeys ==
    {"heading_level", "language", "ordered", "start", "item_number", "src", "alt",
     "title", "href", "display", "quote_type", "key"}

TotalKinds == {"block", "inline", "", "widget"}

TotalElementTypes ==
    {"heading", "code", "list", "table", "list_item", "image", "link", "math", "cite",
     "widget", ""}

TotalContents == {<<>>, <<"x">>, <<"[", QUOTE, "a", QUOTE, "]">>}

TotalAttributes ==
    {NullAttributes,
     <<>>,
     [k \in {"title"} |-> NullValue],
     [k \in {"heading_level", "start"} |-> <<"x">>],
     [k \in {"heading_level", "start"} |-> <<"9", "9", "9", "9", "9", "9", "9", "9", "9", "9">>],
     [k \in {"ordered", "item_number", "src", "href", "key"} |->
         IF k = "ordered" THEN <<"t", "r", "u", "e">> ELSE <<"u">>]}

TotalBlocks ==
    {DuckBlock(kind, e, c, l, enc, a) :
        kind \in TotalKinds, e \in TotalElementTypes, c \in TotalContents,
        l \in {-1, 7}, enc \in {"json", ""}, a \in TotalAttributes}

InitTotal ==
    /\ r_blocks \in {NullList} \cup {BlockList(<<b>>) : b \in TotalBlocks}
                    \cup {BlockList(<<NullBlock, ShortBlock>>)}
    /\ EnterRender
    /\ IdleSections /\ IdleBlocks /\ IdleList /\ IdleTable /\ IdleToSections /\ IdlePandoc /\ IdleGenerate /\ IdleBreadcrumb /\ IdleCopy /\ IdleReader

SpecTotal == InitTotal /\ [][RenderDuckBlocksNext]_vars

\* the attribute map with every looked-up key present: a missing key, a NULL
\* entry and a NULL map become the empty string
WithEmptyDefaults(attributes) ==
    [k \in AttributeKeys |-> GetAttribute(attributes, k)]

----------------------------------------------------------------------------
\* Line spans of the sections ExtractSections emits with their content

\* C24: a section emitted with its whole content has start_line <= end_line,
\* start_line is the first line of its heading, and end_line is not before
\* the last source line of any node rendered into its content.
C24_LineSpanCoversContent ==
    \A k \in 1..Len(sections) :
        LET s == sections[k]
        IN  (include_content /\ ~s.truncated) =>
              /\ s.start_line <= s.end_line
              /\ s.start_line = StartLine(doc, heading_nodes[s.h + 1])
              /\ \A c \in 1..Len(s.captured) : s.end_line >= EndLine(doc, s.captured[c])

----------------------------------------------------------------------------
\* Section paths of duck_blocks_to_sections: heading records whose title is
\* the digit of their level, so that a path shows the level of each component

MaxPathBlocks == 3
MaxPathLevel == 3

LevelTitle(l) == <<DigitChars[l + 1]>>

PathBlocks ==
    {DuckBlock("block", "heading", LevelTitle(l), l, "text", <<>>) : l \in 1..MaxPathLevel}
    \cup {DuckBlock("block", "paragraph", <<"p">>, 0, "text", <<>>),
          DuckBlock("block", "frontmatter", <<"f">>, 0, "text", <<>>),
          NullBlock}

InitPaths ==
    /\ d_blocks \in {NullList}
                    \cup {BlockList(s) : s \in SeqsUpTo(PathBlocks, MaxPathBlocks)}
    /\ EnterToSections
    /\ IdleSections /\ IdleBlocks /\ IdleList /\ IdleTable /\ IdleRender /\ IdlePandoc /\ IdleGenerate /\ IdleBreadcrumb /\ IdleCopy /\ IdleReader

SpecPaths == InitPaths /\ [][DuckBlocksToSectionsNext]_vars

\* the components of a path of one-character titles joined by " > "
PathComponents(path) == [j \in 1..((Len(path) + 3) \div 4) |-> path[4 * (j - 1) + 1]]

\* C25: the section_path of every emitted heading section ends with the
\* section's own title, each component before it is the title of a heading
\* whose level is strictly smaller than the level of the next component, and
\* the path has at most as many components as the section's level.
C25_PathListsStrictAncestors ==
    \A k \in 1..Len(d_sections) :
        LET s == d_sections[k]
            comps == PathComponents(s.section_path)
        IN  s.level >= 1 =>
              /\ Len(comps) >= 1
              /\ <<comps[Len(comps)]>> = s.title
              /\ \A j \in 1..(Len(comps) - 1) :
                    DigitValue(comps[j]) < DigitValue(comps[j + 1])
              /\ Len(comps) <= s.level

----------------------------------------------------------------------------
\* GenerateBreadcrumb

\* ExtractSections as one call: the second pass from heading idx on
RECURSIVE ExtractFrom2(_, _, _, _, _, _)
ExtractFrom2(d, nodes, levels, idx, secs, counts) ==
    IF idx >= Len(nodes) THEN secs
    ELSE IF OutOfRange(levels[idx + 1])
    THEN ExtractFrom2(d, nodes, levels, idx + 1, secs, counts)
    ELSE LET base_id == GenerateSectionId(NodeAt(d, nodes[idx + 1]).title, counts)
             after == Increment(counts, base_id)
         IN  ExtractFrom2(d, nodes, levels, idx + 1,
                          Append(secs, BuildSection(d, nodes, levels, idx, secs, after, base_id)),
                          after)

ExtractSections(d) ==
    IF d = <<>> THEN <<>>
    ELSE LET nodes == CollectHeadingNodes(d, 1)
             levels == [k \in 1..Len(nodes) |-> NodeAt(d, nodes[k]).level]
         IN  ExtractFrom2(d, nodes, levels, 0, <<>>, <<>>)

\* section_map.find(id): the section the map holds for id (1-based index into
\* sections), 0 for end().  The map was filled in section order, so a later
\* section replaced an earlier one with the same id.
SectionMapFind(secs, id) ==
    LET hits == {k \in 1..Len(secs) : secs[k].id = id}
    IN  IF hits = {} THEN 0 ELSE CHOOSE k \in hits : \A j \in hits : j <= k

\* the number of iterations of the walk that are explored
MaxVisits == 6

\* auto sections = ExtractSections(markdown_content, 1, 6, true);
BreadcrumbParse ==
    /\ bc_pc = "start"
    /\ bc_sections' = ExtractSections(doc)
    /\ bc_pc' = "parsed"
    /\ UNCHANGED <<bc_section_id, bc_separator, bc_current, bc_visited, bc_titles, bc_result>>
    /\ UNCHANGED <<secVars, blkVars, listVars, tblVars, rndVars, dbsVars, pdcVars, genVars, cpVars, rdVars>>

\* if (sections.empty()) return "";
BreadcrumbNoSections ==
    /\ bc_pc = "parsed"
    /\ bc_sections = <<>>
    /\ bc_result' = <<>>
    /\ bc_pc' = "done"
    /\ UNCHANGED <<bc_section_id, bc_separator, bc_sections, bc_current, bc_visited, bc_titles>>
    /\ UNCHANGED <<secVars, blkVars, listVars, tblVars, rndVars, dbsVars, pdcVars, genVars, cpVars, rdVars>>

\* the map is built; the target is not in it: return "";
BreadcrumbNotFound ==
    /\ bc_pc = "parsed"
    /\ bc_sections # <<>>
    /\ SectionMapFind(bc_sections, bc_section_id) = 0
    /\ bc_result' = <<>>
    /\ bc_pc' = "done"
    /\ UNCHANGED <<bc_section_id, bc_separator, bc_sections, bc_current, bc_visited, bc_titles>>
    /\ UNCHANGED <<secVars, blkVars, listVars, tblVars, rndVars, dbsVars, pdcVars, genVars, cpVars, rdVars>>

\* the map is built; current = it->second
BreadcrumbFound ==
    /\ bc_pc = "parsed"
    /\ bc_sections # <<>>
    /\ SectionMapFind(bc_sections, bc_section_id) # 0
    /\ bc_current' = SectionMapFind(bc_sections, bc_section_id)
    /\ bc_pc' = "walk"
    /\ UNCHANGED <<bc_section_id, bc_separator, bc_sections, bc_visited, bc_titles, bc_result>>
    /\ UNCHANGED <<secVars, blkVars, listVars, tblVars, rndVars, dbsVars, pdcVars, genVars, cpVars, rdVars>>

\* one iteration of while (current != nullptr): push the title, then break on
\* an empty parent_id or move to the section the map holds for parent_id
BreadcrumbWalk ==
    /\ bc_pc = "walk"
    /\ Len(bc_visited) < MaxVisits
    /\ LET current == bc_sections[bc_current]
           parent == SectionMapFind(bc_sections, current.parent_id)
       IN  /\ bc_titles' = Append(bc_titles, current.title)
           /\ bc_visited' = Append(bc_visited, bc_current)
           /\ IF current.parent_id = <<>>
              THEN bc_pc' = "join" /\ bc_current' = bc_current
              ELSE /\ bc_current' = parent
                   /\ bc_pc' = IF parent = 0 THEN "join" ELSE "walk"
    /\ UNCHANGED <<bc_section_id, bc_separator, bc_sections, bc_result>>
    /\ UNCHANGED <<secVars, blkVars, listVars, tblVars, rndVars, dbsVars, pdcVars, genVars, cpVars, rdVars>>

\* titles reversed and joined by the separator
RECURSIVE JoinReversed(_, _)
JoinReversed(titles, separator) ==
    IF titles = <<>> THEN <<>>
    ELSE IF Len(titles) = 1 THEN titles[1]
    ELSE titles[Len(titles)] \o separator
         \o JoinReversed(SubSeq(titles, 1, Len(titles) - 1), separator)

\* std::reverse, the join, return result;
BreadcrumbJoin ==
    /\ bc_pc = "join"
    /\ bc_result' = JoinReversed(bc_titles, bc_separator)
    /\ bc_pc' = "done"
    /\ UNCHANGED <<bc_section_id, bc_separator, bc_sections, bc_current, bc_visited, bc_titles>>
    /\ UNCHANGED <<secVars, blkVars, listVars, tblVars, rndVars, dbsVars, pdcVars, genVars, cpVars, rdVars>>

GenerateBreadcrumbNext ==
    \/ BreadcrumbParse
    \/ BreadcrumbNoSections
    \/ BreadcrumbNotFound
    \/ BreadcrumbFound
    \/ BreadcrumbWalk
    \/ BreadcrumbJoin

\* documents of headings whose titles give colliding ids
MaxCrumbHeadings == 4
MaxCrumbLevel == 3

CrumbTitles == {<<"A">>, <<"A", "-", "1", "-", "1">>}

CrumbDocs ==
    SeqsUpTo({HeadingNode(l, t) : l \in 1..MaxCrumbLevel, t \in CrumbTitles},
             MaxCrumbHeadings)

CrumbTargets == {<<"a">>, <<"a", "-", "1">>, <<"a", "-", "1", "-", "1">>, <<"z">>}

InitBreadcrumb ==
    /\ doc \in CrumbDocs
    /\ min_level = 1 /\ max_level = 6
    /\ include_content = TRUE /\ content_mode = "minimal" /\ max_content_length = 0
    /\ heading_nodes = <<>> /\ heading_levels = <<>> /\ i = 0
    /\ sections = <<>> /\ id_counts = <<>> /\ pc = "idle"
    /\ bc_section_id \in CrumbTargets
    /\ bc_separator = <<" ", ">", " ">>
    /\ bc_sections = <<>> /\ bc_current = 0 /\ bc_visited = <<>> /\ bc_titles = <<>>
    /\ bc_result = <<>> /\ bc_pc = "start"
    /\ IdleBlocks /\ IdleList /\ IdleTable /\ IdleRender /\ IdleToSections /\ IdlePandoc /\ IdleGenerate /\ IdleCopy /\ IdleReader

SpecBreadcrumb == InitBreadcrumb /\ [][GenerateBreadcrumbNext]_vars

\* C26: the walk up the parent chain visits each section at most once, so it
\* ends after at most as many iterations as there are sections.
C26_WalkVisitsEachSectionOnce ==
    /\ \A j, k \in 1..Len(bc_visited) : j # k => bc_visited[j] # bc_visited[k]
    /\ Len(bc_visited) <= Len(bc_sections)

----------------------------------------------------------------------------
\* COPY ... TO (FORMAT MARKDOWN): the row renderers

\* EscapeCellValue with escape_pipes and escape_newlines at their defaults
EscapeCellValue(value) ==
    Flatten([k \in 1..Len(value) |->
               IF value[k] = "|" THEN <<BSL, "|">>
               ELSE IF value[k] = NL THEN <<"<", "b", "r", ">">>
               ELSE IF value[k] = CR THEN <<>>
               ELSE <<value[k]>>])

\* RenderTableRow: "|" then " " + cell + " |" per column, then a newline
RenderTableRow(cells) ==
    <<"|">> \o Flatten([k \in 1..Len(cells) |->
                          <<" ">> \o EscapeCellValue(cells[k]) \o <<" ", "|">>])
    \o <<NL>>

\* RenderTableHeader + RenderTableSeparator for left-aligned columns
RenderTableHeader(column_names) ==
    <<"|">> \o Flatten([k \in 1..Len(column_names) |->
                          <<" ">> \o column_names[k] \o <<" ", "|">>])
    \o <<NL>>

RenderTableSeparator(column_names) ==
    <<"|">> \o Flatten([k \in 1..Len(column_names) |-> <<"-", "-", "-", "|">>]) \o <<NL>>

\* RenderFrontmatter
RenderFrontmatter(frontmatter) ==
    IF frontmatter = <<>> THEN <<>>
    ELSE <<"-", "-", "-", NL>> \o frontmatter \o <<NL, "-", "-", "-", NL, NL>>

\* RenderSection with blank_lines at its default 1
RenderSection(level, title, content) ==
    IF level = 0
    THEN (IF content # <<>>
          THEN <<"-", "-", "-", NL>> \o content \o <<NL, "-", "-", "-", NL, NL>>
          ELSE <<>>)
    ELSE (IF level > 0 /\ level <= 6 /\ title # <<>>
          THEN Repeat("#", level) \o <<" ">> \o title \o <<NL>> ELSE <<>>)
         \o (IF content # <<>> THEN <<NL>> \o content \o <<NL>> ELSE <<>>)
         \o <<NL>>

\* the table branch of RenderBlock
CopyRenderTable(content, encoding) ==
    IF encoding = "json" /\ FindStr(content, HeadersKey) # -1
    THEN LET t == ParseJsonTable(content)
         IN  IF t.headers # <<>> THEN PipeTable(t.headers, t.rows, Len(t.headers))
             ELSE content \o <<NL, NL>>
    ELSE content \o <<NL, NL>>

\* MarkdownCopyFunction::RenderBlock; get_attr is GetAttribute
RenderBlock(element_type, content, level, encoding, attributes) ==
    IF element_type \in {"frontmatter", "metadata"}
    THEN <<"-", "-", "-", NL>> \o content \o <<NL, "-", "-", "-", NL, NL>>
    ELSE IF element_type = "heading"
    THEN Repeat("#", IF level > 0 /\ level <= 6 THEN level ELSE 1)
         \o <<" ">> \o content \o <<NL, NL>>
    ELSE IF element_type = "paragraph" THEN content \o <<NL, NL>>
    ELSE IF element_type = "code"
    THEN <<BACKTICK, BACKTICK, BACKTICK>> \o GetAttribute(attributes, "language") \o <<NL>>
         \o content \o <<NL, BACKTICK, BACKTICK, BACKTICK, NL, NL>>
    ELSE IF element_type = "blockquote" THEN QuoteLines(content) \o <<NL>>
    ELSE IF element_type = "list"
    THEN LET start_str == GetAttribute(attributes, "start")
         IN  RenderList(content, encoding,
                        GetAttribute(attributes, "ordered") = <<"t", "r", "u", "e">>,
                        IF start_str # <<>> /\ StdStoi(start_str).ok
                        THEN StdStoi(start_str).value ELSE 1)
    ELSE IF element_type = "table" THEN CopyRenderTable(content, encoding)
    ELSE IF element_type = "hr" THEN <<"-", "-", "-", NL, NL>>
    ELSE content \o <<NL, NL>>

\* the text Sink appends to the local buffer for one row
RenderRow(mode, row) ==
    IF mode = "table" THEN RenderTableRow(row.cells)
    ELSE IF mode = "document" THEN RenderSection(row.level, row.title, row.content)
    ELSE RenderBlock(row.element_type, row.content, row.level, row.encoding, row.attributes)

RECURSIVE RenderRows(_, _)
RenderRows(mode, rows) ==
    IF rows = <<>> THEN <<>>
    ELSE RenderRow(mode, Head(rows)) \o RenderRows(mode, Tail(rows))

----------------------------------------------------------------------------
\* COPY ... TO (FORMAT MARKDOWN): Sink, Combine and Finalize.  Every worker
\* sinks its chunks into its local buffer and then combines once; Finalize
\* runs after the last Combine.

Workers == DOMAIN c_pc

ColumnNames == <<(<<"c">>)>>

\* a mutex that never blocks
LockIgnored(holder) == TRUE

\* the mutex is free
LockAvailable(holder) == holder = 0

\* the text written before the data: the header rows or the frontmatter block
Preamble ==
    IF c_mode = "table"
    THEN RenderTableHeader(ColumnNames) \o RenderTableSeparator(ColumnNames)
    ELSE RenderFrontmatter(c_frontmatter)

\* !gstate.header_written && bind_data.header, or the frontmatter counterpart
PreambleDue ==
    IF c_mode = "table" THEN ~header_written /\ c_header
    ELSE ~frontmatter_written /\ c_frontmatter # <<>>

\* Sink: the next chunk of worker w is rendered row by row into its buffer
Sink(w) ==
    /\ c_pc[w] = "sink"
    /\ c_input[w] # <<>>
    /\ c_buffer' = [c_buffer EXCEPT ![w] = @ \o RenderRows(c_mode, Head(c_input[w]))]
    /\ c_sunk' = [c_sunk EXCEPT ![w] = @ \o Head(c_input[w])]
    /\ c_input' = [c_input EXCEPT ![w] = Tail(@)]
    /\ UNCHANGED <<c_mode, c_header, c_frontmatter, c_pc, write_lock, header_written,
                   frontmatter_written, c_file, c_closed>>
    /\ UNCHANGED <<secVars, blkVars, listVars, tblVars, rndVars, dbsVars, pdcVars, genVars, bcVars, rdVars>>

\* Combine with an empty buffer: return
CombineEmpty(w) ==
    /\ c_pc[w] = "sink"
    /\ c_input[w] = <<>>
    /\ c_buffer[w] = <<>>
    /\ c_pc' = [c_pc EXCEPT ![w] = "done"]
    /\ UNCHANGED <<c_mode, c_header, c_frontmatter, c_input, c_sunk, c_buffer, write_lock,
                   header_written, frontmatter_written, c_file, c_closed>>
    /\ UNCHANGED <<secVars, blkVars, listVars, tblVars, rndVars, dbsVars, pdcVars, genVars, bcVars, rdVars>>

\* Combine: lock_guard<mutex> lock(gstate.write_lock), then the test of the
\* written flag
CombineLock(w) ==
    /\ c_pc[w] = "sink"
    /\ c_input[w] = <<>>
    /\ c_buffer[w] # <<>>
    /\ LockAvailable(write_lock)
    /\ write_lock' = w
    /\ c_pc' = [c_pc EXCEPT ![w] = IF PreambleDue THEN "preamble" ELSE "data"]
    /\ UNCHANGED <<c_mode, c_header, c_frontmatter, c_input, c_sunk, c_buffer,
                   header_written, frontmatter_written, c_file, c_closed>>
    /\ UNCHANGED <<secVars, blkVars, listVars, tblVars, rndVars, dbsVars, pdcVars, genVars, bcVars, rdVars>>

\* Combine: the header or frontmatter is written and its flag is set
CombinePreamble(w) ==
    /\ c_pc[w] = "preamble"
    /\ c_file' = Append(c_file, [kind |-> "preamble", worker |-> w, text |-> Preamble])
    /\ header_written' = (header_written \/ c_mode = "table")
    /\ frontmatter_written' = (frontmatter_written \/ c_mode # "table")
    /\ c_pc' = [c_pc EXCEPT ![w] = "data"]
    /\ UNCHANGED <<c_mode, c_header, c_frontmatter, c_input, c_sunk, c_buffer, write_lock,
                   c_closed>>
    /\ UNCHANGED <<secVars, blkVars, listVars, tblVars, rndVars, dbsVars, pdcVars, genVars, bcVars, rdVars>>

\* Combine: the buffer is written and cleared, the lock is released
CombineData(w) ==
    /\ c_pc[w] = "data"
    /\ c_file' = Append(c_file, [kind |-> "data", worker |-> w, text |-> c_buffer[w]])
    /\ c_buffer' = [c_buffer EXCEPT ![w] = <<>>]
    /\ write_lock' = 0
    /\ c_pc' = [c_pc EXCEPT ![w] = "done"]
    /\ UNCHANGED <<c_mode, c_header, c_frontmatter, c_input, c_sunk, header_written,
                   frontmatter_written, c_closed>>
    /\ UNCHANGED <<secVars, blkVars, listVars, tblVars, rndVars, dbsVars, pdcVars, genVars, bcVars, rdVars>>

\* Finalize: the header or frontmatter when nothing wrote it, then Sync and Close
Finalize ==
    /\ ~c_closed
    /\ \A w \in Workers : c_pc[w] = "done"
    /\ c_file' = IF PreambleDue
                 THEN Append(c_file, [kind |-> "preamble", worker |-> 0, text |-> Preamble])
                 ELSE c_file
    /\ c_closed' = TRUE
    /\ UNCHANGED <<c_mode, c_header, c_frontmatter, c_input, c_sunk, c_buffer, c_pc,
                   write_lock, header_written, frontmatter_written>>
    /\ UNCHANGED <<secVars, blkVars, listVars, tblVars, rndVars, dbsVars, pdcVars, genVars, bcVars, rdVars>>

CopyNext ==
    \/ \E w \in Workers : Sink(w)
    \/ \E w \in Workers : CombineEmpty(w)
    \/ \E w \in Workers : CombineLock(w)
    \/ \E w \in Workers : CombinePreamble(w)
    \/ \E w \in Workers : CombineData(w)
    \/ Finalize

\* the state after InitializeGlobal and InitializeLocal for every worker
EnterCopy ==
    /\ c_sunk = [w \in DOMAIN c_input |-> <<>>]
    /\ c_buffer = [w \in DOMAIN c_input |-> <<>>]
    /\ c_pc = [w \in DOMAIN c_input |-> "sink"]
    /\ write_lock = 0 /\ header_written = FALSE /\ frontmatter_written = FALSE
    /\ c_file = <<>> /\ c_closed = FALSE

----------------------------------------------------------------------------
\* The COPY writer with one to MaxWorkers workers in each of the three modes

MaxWorkers == 2

TableRow(cell) == [cells |-> <<cell>>]
SectionRow(level, title, content) == [level |-> level, title |-> title, content |-> content]
BlockRow(element_type, content, level, encoding, attributes) ==
    [element_type |-> element_type, content |-> content, level |-> level,
     encoding |-> encoding, attributes |-> attributes]

\* two rows per mode; the second section row renders as the empty string
FirstRow(mode) ==
    IF mode = "table" THEN TableRow(<<"a">>)
    ELSE IF mode = "document" THEN SectionRow(1, <<"T">>, <<"c">>)
    ELSE BlockRow("paragraph", <<"p">>, -1, "text", <<>>)

SecondRow(mode) ==
    IF mode = "table" THEN TableRow(<<"|">>)
    ELSE IF mode = "document" THEN SectionRow(0, <<>>, <<>>)
    ELSE BlockRow("heading", <<"h">>, 2, "text", <<>>)

\* what one worker sinks: no chunk, one chunk, two chunks, one chunk of two rows
CopyInputs(mode) ==
    {<<>>,
     <<(<<SecondRow(mode)>>)>>,
     <<(<<FirstRow(mode)>>), (<<SecondRow(mode)>>)>>,
     <<(<<SecondRow(mode), FirstRow(mode)>>)>>}

InitCopy ==
    /\ c_mode \in {"table", "document", "blocks"}
    /\ c_header \in (IF c_mode = "table" THEN BOOLEAN ELSE {TRUE})
    /\ c_frontmatter \in (IF c_mode = "table" THEN {<<>>} ELSE {<<>>, <<"k", ":", "v">>})
    /\ \E n \in 1..MaxWorkers : c_input \in [1..n -> CopyInputs(c_mode)]
    /\ EnterCopy
    /\ IdleSections /\ IdleBlocks /\ IdleList /\ IdleTable /\ IdleRender /\ IdleToSections /\ IdlePandoc /\ IdleGenerate /\ IdleBreadcrumb /\ IdleReader

SpecCopy == InitCopy /\ [][CopyNext]_vars

\* the options ask for a header (table mode) or a frontmatter block
PreambleWanted == IF c_mode = "table" THEN c_header ELSE c_frontmatter # <<>>

PreambleWrites == {k \in 1..Len(c_file) : c_file[k].kind = "preamble"}

DataWrites(w) == {k \in 1..Len(c_file) : c_file[k].kind = "data" /\ c_file[k].worker = w}

\* C27: the header rows (table mode with header) or the frontmatter block
\* (document and blocks mode with a frontmatter option) are written at most
\* once while workers combine and exactly once when Finalize has run, before
\* every data write, also when no row was sunk; every worker's buffer is
\* written by one write that holds all the rows the worker sank, in order.
C27_PreambleOnceAndBuffersWhole ==
    /\ Cardinality(PreambleWrites) <= 1
    /\ ~PreambleWanted => PreambleWrites = {}
    /\ (PreambleWanted /\ c_file # <<>>) =>
          c_file[1].kind = "preamble" /\ c_file[1].text = Preamble
    /\ (PreambleWanted /\ c_closed /\ c_pc # <<>>) => Cardinality(PreambleWrites) = 1
    /\ \A w \in Workers :
          /\ Cardinality(DataWrites(w)) <= 1
          /\ \A k \in DataWrites(w) : c_file[k].text = RenderRows(c_mode, c_sunk[w])
          /\ c_pc[w] = "done" =>
                (DataWrites(w) = {} <=> RenderRows(c_mode, c_sunk[w]) = <<>>)

\* table mode with a header: two workers sank rows, the file was closed with
\* the header rows first and the buffer of worker 2 before that of worker 1
C27_TwoWorkersWroteAfterHeader ==
    /\ c_closed
    /\ c_mode = "table" /\ c_header
    /\ Len(c_file) = 3
    /\ c_file[1].kind = "preamble"
    /\ c_file[2].kind = "data" /\ c_file[2].worker = 2
    /\ c_file[3].kind = "data" /\ c_file[3].worker = 1
    /\ Len(c_sunk[1]) = 2

----------------------------------------------------------------------------
\* read_markdown_sections: successive calls of MarkdownReadSectionsFunction
\* on one MarkdownReadSectionState.  rd_files[k] holds the sections that
\* ProcessSections returns for file k; output is the chunk being filled and
\* rd_out the chunks the calls have returned.

\* the chunk capacity, scaled down
StandardVectorSize == 2

\* the number of calls explored after the state is finished
MaxFinishedCalls == 2

\* a test that always asks for a load
NeedLoadAlways(cur, idx) == TRUE

\* state.current_sections.empty() || state.section_index >= state.current_sections.size()
NeedLoad(cur, idx) == cur = <<>> \/ idx >= Len(cur)

\* if (state.finished) { output.SetCardinality(0); return; }
ReadCallFinished ==
    /\ rd_pc = "ready"
    /\ finished
    /\ Len(SelectSeq(rd_out, LAMBDA c : c.after_finish)) < MaxFinishedCalls
    /\ rd_out' = Append(rd_out, [rows |-> <<>>, after_finish |-> TRUE])
    /\ UNCHANGED <<rd_files, file_index, section_index, current_sections, finished,
                   output_idx, output, rd_pc>>
    /\ UNCHANGED <<secVars, blkVars, listVars, tblVars, rndVars, dbsVars, pdcVars, genVars, bcVars, cpVars>>

\* idx_t output_idx = 0; and the loop is entered
ReadCallStart ==
    /\ rd_pc = "ready"
    /\ ~finished
    /\ output_idx' = 0
    /\ output' = <<>>
    /\ rd_pc' = "loop"
    /\ UNCHANGED <<rd_files, file_index, section_index, current_sections, finished, rd_out>>
    /\ UNCHANGED <<secVars, blkVars, listVars, tblVars, rndVars, dbsVars, pdcVars, genVars, bcVars, cpVars>>

\* an iteration that finds no file left: finished = true; break; then
\* output.SetCardinality(output_idx)
ReadFinish ==
    /\ rd_pc = "loop"
    /\ output_idx < StandardVectorSize
    /\ NeedLoad(current_sections, section_index)
    /\ file_index >= Len(rd_files)
    /\ finished' = TRUE
    /\ rd_out' = Append(rd_out, [rows |-> output, after_finish |-> FALSE])
    /\ rd_pc' = "ready"
    /\ UNCHANGED <<rd_files, file_index, section_index, current_sections, output_idx, output>>
    /\ UNCHANGED <<secVars, blkVars, listVars, tblVars, rndVars, dbsVars, pdcVars, genVars, bcVars, cpVars>>

\* an iteration that loads a file without sections: file_index++; continue
ReadSkipFile ==
    /\ rd_pc = "loop"
    /\ output_idx < StandardVectorSize
    /\ NeedLoad(current_sections, section_index)
    /\ file_index < Len(rd_files)
    /\ rd_files[file_index + 1] = <<>>
    /\ current_sections' = <<>>
    /\ section_index' = 0
    /\ file_index' = file_index + 1
    /\ UNCHANGED <<rd_files, finished, output_idx, output, rd_out, rd_pc>>
    /\ UNCHANGED <<secVars, blkVars, listVars, tblVars, rndVars, dbsVars, pdcVars, genVars, bcVars, cpVars>>

\* an iteration that writes one row: the file is loaded first when needed;
\* after the file's last section file_index moves on and the sections are
\* cleared
ReadEmit ==
    /\ rd_pc = "loop"
    /\ output_idx < StandardVectorSize
    /\ LET load == NeedLoad(current_sections, section_index)
           secs == IF load THEN rd_files[file_index + 1] ELSE current_sections
           idx == IF load THEN 0 ELSE section_index
           last == idx + 1 >= Len(secs)
       IN  /\ load => (file_index < Len(rd_files) /\ rd_files[file_index + 1] # <<>>)
           /\ output' = Append(output, [file_path |-> file_index + 1, section |-> secs[idx + 1]])
           /\ output_idx' = output_idx + 1
           /\ file_index' = IF last THEN file_index + 1 ELSE file_index
           /\ current_sections' = IF last THEN <<>> ELSE secs
           /\ section_index' = IF last THEN 0 ELSE idx + 1
    /\ UNCHANGED <<rd_files, finished, rd_out, rd_pc>>
    /\ UNCHANGED <<secVars, blkVars, listVars, tblVars, rndVars, dbsVars, pdcVars, genVars, bcVars, cpVars>>

\* the loop ends with a full chunk: output.SetCardinality(output_idx)
ReadReturnFull ==
    /\ rd_pc = "loop"
    /\ output_idx >= StandardVectorSize
    /\ rd_out' = Append(rd_out, [rows |-> output, after_finish |-> FALSE])
    /\ rd_pc' = "ready"
    /\ UNCHANGED <<rd_files, file_index, section_index, current_sections, finished,
                   output_idx, output>>
    /\ UNCHANGED <<secVars, blkVars, listVars, tblVars, rndVars, dbsVars, pdcVars, genVars, bcVars, cpVars>>

MarkdownReadSectionsNext ==
    \/ ReadCallFinished
    \/ ReadCallStart
    \/ ReadFinish
    \/ ReadSkipFile
    \/ ReadEmit
    \/ ReadReturnFull

\* files with zero to MaxFileSections sections; section j of file k is <<k, j>>
MaxFiles == 3
MaxFileSections == 3

FileSections(k, n) == [j \in 1..n |-> <<k, j>>]

InitReader ==
    /\ \E n \in 0..MaxFiles :
          \E counts \in [1..n -> 0..MaxFileSections] :
              rd_files = [k \in 1..n |-> FileSections(k, counts[k])]
    /\ file_index = 0 /\ section_index = 0 /\ current_sections = <<>>
    /\ finished = FALSE
    /\ output_idx = 0 /\ output = <<>> /\ rd_out = <<>> /\ rd_pc = "ready"
    /\ IdleSections /\ IdleBlocks /\ IdleList /\ IdleTable /\ IdleRender /\ IdleToSections /\ IdlePandoc /\ IdleGenerate /\ IdleBreadcrumb /\ IdleCopy

SpecReader == InitReader /\ [][MarkdownReadSectionsNext]_vars

\* the executor keeps calling the function until a call returns no rows
SpecReaderFair == SpecReader /\ WF_vars(MarkdownReadSectionsNext)

\* every section of every file with the file it came from, in file order
RECURSIVE ExpectedRows(_, _)
ExpectedRows(files, k) ==
    IF k > Len(files) THEN <<>>
    ELSE [j \in 1..Len(files[k]) |-> [file_path |-> k, section |-> files[k][j]]]
         \o ExpectedRows(files, k + 1)

\* the rows of the returned chunks, then the rows of the chunk being filled
RECURSIVE ChunkRows(_)
ChunkRows(chunks) ==
    IF chunks = <<>> THEN <<>> ELSE Head(chunks).rows \o ChunkRows(Tail(chunks))

EmittedRows == ChunkRows(rd_out) \o (IF rd_pc = "loop" THEN output ELSE <<>>)

\* the rows emitted so far are the first sections of the files in file
\* order and section order, each with its file's path; no chunk holds more
\* than StandardVectorSize rows; a chunk that is not full is returned only by
\* the call that sets finished; once finished every section has been emitted
\* and every later call returns zero rows.
ReaderInvariant ==
    /\ Len(EmittedRows) <= Len(ExpectedRows(rd_files, 1))
    /\ EmittedRows = SubSeq(ExpectedRows(rd_files, 1), 1, Len(EmittedRows))
    /\ output_idx <= StandardVectorSize
    /\ \A c \in 1..Len(rd_out) :
          /\ Len(rd_out[c].rows) <= StandardVectorSize
          /\ rd_out[c].after_finish => rd_out[c].rows = <<>>
          /\ (Len(rd_out[c].rows) < StandardVectorSize /\ ~rd_out[c].after_finish)
                => (finished /\ \A e \in (c + 1)..Len(rd_out) : rd_out[e].after_finish)
    /\ finished => EmittedRows = ExpectedRows(rd_files, 1)

----------------------------------------------------------------------------
\* duck_blocks_to_sections: where the renderings of the body records go

MaxConserveBlocks == 4

ConserveBlocks ==
    {DuckBlock("block", "frontmatter", <<"f">>, 0, "text", <<>>),
     DuckBlock("block", "metadata", <<>>, 0, "text", <<>>),
     DuckBlock("block", "heading", <<"H">>, 1, "text", <<>>),
     DuckBlock("block", "heading", <<>>, 2, "text", <<>>),
     DuckBlock("block", "paragraph", <<"p">>, 0, "text", <<>>),
     DuckBlock("block", "hr", <<>>, 0, "text", <<>>),
     NullBlock}

InitConserve ==
    /\ d_blocks \in {NullList}
                    \cup {BlockList(s) : s \in SeqsUpTo(ConserveBlocks, MaxConserveBlocks)}
    /\ EnterToSections
    /\ IdleSections /\ IdleBlocks /\ IdleList /\ IdleTable /\ IdleRender /\ IdlePandoc /\ IdleGenerate /\ IdleBreadcrumb /\ IdleCopy /\ IdleReader

SpecConserve == InitConserve /\ [][DuckBlocksToSectionsNext]_vars

IsRecord(b) == ~b.is_null /\ b.size >= 7

IsOpener(b) == IsRecord(b) /\ b.element_type \in {"heading", "metadata", "frontmatter"}

IsBodyRecord(b) == IsRecord(b) /\ ~IsOpener(b)

\* the renderings of the body records at positions from..to, in list order
RECURSIVE BodyRenderings(_, _, _)
BodyRenderings(recs, from, to) ==
    IF from > to THEN <<>>
    ELSE (IF IsBodyRecord(recs[from]) THEN RenderOf(recs[from]) ELSE <<>>)
         \o BodyRenderings(recs, from + 1, to)

\* the position of the last heading, frontmatter or metadata record among the
\* first n records, 0 when there is none
LastOpener(recs, n) ==
    LET openers == {k \in 1..n : IsOpener(recs[k])}
    IN  IF openers = {} THEN 0 ELSE CHOOSE k \in openers : \A j \in openers : j <= k

\* the contents of the frontmatter and metadata records among the first n
\* records that have content, in list order
RECURSIVE DirectContents(_, _)
DirectContents(recs, n) ==
    IF n = 0 THEN <<>>
    ELSE DirectContents(recs, n - 1)
         \o (IF IsFrontmatterRecord(recs[n]) /\ recs[n].content # <<>>
             THEN <<recs[n].content>> ELSE <<>>)

\* the contents of the sections at the positions in keep, in emission order
RECURSIVE SectionContents(_, _, _)
SectionContents(secs, keep, k) ==
    IF k > Len(secs) THEN <<>>
    ELSE (IF k \in keep THEN <<secs[k].content>> ELSE <<>>)
         \o SectionContents(secs, keep, k + 1)

RECURSIVE Concat(_)
Concat(ss) == IF ss = <<>> THEN <<>> ELSE Head(ss) \o Concat(Tail(ss))

\* C29: while the list is processed the current section holds the renderings
\* of the body records since the nearest preceding heading or frontmatter
\* record (or since the start), and the emitted sections split into those
\* built directly from a frontmatter or metadata record, which carry the
\* records' contents in list order, and the others, whose contents followed
\* by the current section's content concatenate to the renderings of all body
\* records processed so far in list order; at the end, with the final section
\* flushed, the other sections alone concatenate to all renderings.
C29_BodyRenderingsConserved ==
    (d_pc \in {"start", "done"} /\ ~d_blocks.is_null) =>
        LET recs == d_blocks.children
            pending == IF d_pc = "start" THEN current_content ELSE <<>>
            all == 1..Len(d_sections)
        IN  /\ d_pc = "start" =>
                  current_content = BodyRenderings(recs, LastOpener(recs, d_i) + 1, d_i)
            /\ \E direct \in SUBSET all :
                  /\ SectionContents(d_sections, direct, 1) = DirectContents(recs, d_i)
                  /\ \A k \in direct :
                        /\ d_sections[k].section_id = FrontmatterId
                        /\ d_sections[k].level = 0
                        /\ d_sections[k].title = <<>>
                  /\ Concat(SectionContents(d_sections, all \ direct, 1)) \o pending
                        = BodyRenderings(recs, 1, d_i)

\* a paragraph, a frontmatter record, a rule and a heading gave four sections:
\* the untitled leading section with the paragraph, the frontmatter section,
\* a second level-0 section with the rule, and the heading's empty section
C29_BodiesAroundFrontmatter ==
    /\ d_pc = "done"
    /\ ~d_blocks.is_null
    /\ Len(d_blocks.children) = 4
    /\ Len(d_sections) = 4
    /\ d_sections[1].title = <<>> /\ d_sections[1].section_id = <<>>
    /\ d_sections[1].content = <<"p", NL, NL>>
    /\ d_sections[2].section_id = FrontmatterId /\ d_sections[2].content = <<"f">>
    /\ d_sections[3].section_id = FrontmatterId
    /\ d_sections[3].content = RenderOf(d_blocks.children[3])
    /\ d_blocks.children[3].element_type = "hr"
    /\ d_sections[4].title = <<"H">> /\ d_sections[4].content = <<>>

----------------------------------------------------------------------------
\* COPY in blocks mode next to duck_block_to_md: the rows a worker sinks are
\* rendered by MarkdownCopyFunction::RenderBlock, the same records with kind
\* "block" by RenderDuckBlockToMarkdown

CopyBlockRows ==
    {BlockRow("paragraph", <<"p">>, 0, "text", <<>>),
     BlockRow("heading", <<"h">>, 2, "text", <<>>),
     BlockRow("heading", <<"h">>, 2, "text", [heading_level |-> <<"3">>]),
     BlockRow("heading", <<"h">>, 0, "text", [heading_level |-> <<"9">>]),
     BlockRow("code", <<"c">>, 0, "text", [language |-> <<"q">>]),
     BlockRow("hr", <<>>, 0, "text", <<>>),
     BlockRow("image", <<"a">>, 0, "text", [src |-> <<"u">>]),
     BlockRow("list_item", <<"i">>, 0, "text", <<>>)}

\* what one worker sinks: no chunk, one chunk of one row, two chunks of one row
CopyBlockInputs ==
    {<<>>}
    \cup {<<(<<r>>)>> : r \in CopyBlockRows}
    \cup {<<(<<r>>), (<<BlockRow("paragraph", <<"p">>, 0, "text", <<>>)>>)>> :
             r \in CopyBlockRows}

InitCopyBlocks ==
    /\ c_mode = "blocks"
    /\ c_header = TRUE
    /\ c_frontmatter \in {<<>>, <<"k", ":", "v">>}
    /\ \E n \in 1..MaxWorkers : c_input \in [1..n -> CopyBlockInputs]
    /\ EnterCopy
    /\ IdleSections /\ IdleBlocks /\ IdleList /\ IdleTable /\ IdleRender /\ IdleToSections /\ IdlePandoc /\ IdleGenerate /\ IdleBreadcrumb /\ IdleReader

SpecCopyBlocks == InitCopyBlocks /\ [][CopyNext]_vars

\* the text duck_block_to_md gives for the rows as records of kind "block"
RECURSIVE DuckBlockTexts(_)
DuckBlockTexts(rows) ==
    IF rows = <<>> THEN <<>>
    ELSE RenderDuckBlockToMarkdown("block", Head(rows).element_type, Head(rows).content,
                                   Head(rows).level, Head(rows).encoding,
                                   Head(rows).attributes)
         \o DuckBlockTexts(Tail(rows))

\* C30: the text COPY in blocks mode produces for the rows a worker has sunk,
\* in its buffer and in the file, equals the text duck_block_to_md produces
\* for the same records with kind "block".
C30_CopyBlocksAgreeWithDuckBlockToMd ==
    c_mode = "blocks" =>
        \A w \in Workers :
            /\ c_pc[w] # "done" => c_buffer[w] = DuckBlockTexts(c_sunk[w])
            /\ \A k \in DataWrites(w) : c_file[k].text = DuckBlockTexts(c_sunk[w])

====
